---- MODULE Spec2Model ----
(***************************************************************************)
(* Model of the YouTube acquisition engine of backend/app/services:        *)
(* the proxy rotator, the failure classifiers, the strategy matrix and     *)
(* the proxy x strategy download loop with its AgentGo escalation.         *)
(*                                                                         *)
(* Conventions.  A proxy address is the positive integer i standing for    *)
(* the i-th address of settings.youtube_proxy_list; Python's None for a    *)
(* proxy is NoProxy.  Text (exception messages, keywords, log prefixes)    *)
(* is a sequence of one-character strings, so that lower-casing and the    *)
(* substring tests of the classifiers are computed, not assumed.           *)
(***************************************************************************)
EXTENDS Integers, Sequences, FiniteSets, TLC

VARIABLES
    \* ---- ProxyRotator (downloader.py:59-112), one process-wide instance
    proxies,          \* self.proxies: the pool, in configuration order
    current_index,    \* self.current_index: round-robin cursor (0-based)
    failed_proxies,   \* self.failed_proxies: set of temporarily failed proxies
    selected,         \* history: the last get_random/get_next call and its result
    \* ---- AgentGoService configuration and region cache (agentgo_service.py)
    api_key,          \* bool(self.api_key)
    credentials,      \* bool(self.youtube_email and self.youtube_password)
    region_cookies_cache, \* regions holding a live entry of _region_cookies_cache
    \* ---- one resolve call: YouTubeDownloader + download()/download_youtube_video()
    pc,               \* position of the call
    entry,            \* "download" awaited directly, or "download_youtube_video"
                      \* with its prefetch and deadlines (as routes.py:133-179)
    use_rotation,     \* self.use_rotation
    current_proxy,    \* self.current_proxy
    region,           \* self.region ("None" when absent)
    auth_bundle,      \* self._auth_bundle
    script,           \* the message a failing attempt gets, per entry of proxies_to_try
    proxies_to_try,   \* local proxies_to_try of download()
    proxy_idx,        \* index of the proxy being tried (1-based position)
    strategy_pos,     \* position in the strategy list being tried (1-based)
    errors,           \* local list errors of download()
    attempts,         \* history: every _download_with_strategy call of this call
    refresh_calls,    \* history: get_youtube_authentication_bundle calls of this call
    escalations,      \* history: refresh calls made by _try_agentgo_fallback
    failed_at_build,  \* history: failed_proxies when proxies_to_try was built
    outcome,          \* how the call ended: result of the call or the error raised
    \* ---- the per-region cookie cache of AgentGoService, with its clock
    clock,            \* time.time(), in whole seconds
    ticks,            \* history: how many times the clock has advanced
    cookie_cache,     \* self._region_cookies_cache: region -> (cookie_file, timestamp)
    cookie_files,     \* the cookie files that exist on disk
    cached_read,      \* history: the last _get_cached_cookie_for_region call
    \* ---- one ExtractedVideo and its get_download_urls calls (url_extractor.py)
    formats,          \* self._formats: the renditions, in the order yt-dlp lists them
    urls,             \* history: the last get_download_urls call and its result
    urls_before,      \* history: the get_download_urls call before the last one
    \* ---- the two is_bot_detection_error functions, applied to one message
    classified,       \* history: the last message classified and both answers
    \* ---- one request of the /extract endpoint (routes.extract_direct_urls)
    ep_pc,            \* position of the request in its download loop
    ep_attempt,       \* the loop variable attempt
    ep_region,        \* region, from the client's address
    ep_cookie_file_path, \* local cookie_file_path of the iteration
    ep_cached_first,  \* history: what get_cached_cookie_file returned at attempt 1
    ep_refreshes,     \* history: the get_youtube_authentication_bundle calls
    ep_runs,          \* history: the yt-dlp runs of the request
    ep_outcome,       \* how the loop ended
    \* ---- TokenExtractor (agentgo_service.py)
    token_call,       \* history: the last extract_tokens_with_timeout call
    \* ---- the tasks of POST /process and their background runs (routes.py)
    tasks,            \* the TaskData objects created, by task id
    qwen_api_key,     \* bool(settings.qwen_api_key)
    \* ---- concurrent get_youtube_authentication_bundle calls in one process
    environ,          \* the proxy variables set in os.environ
    refresh,          \* per caller: position, arguments, original_env, result
    jar,              \* per cookie file: the browser session its cookies are from
    minted,           \* how many browser sessions have delivered cookies
    stored,           \* history: per region, the bundle of the last successful refresh
    returned,         \* history: the bundles the calls have returned, each with
                      \* the bundle stored for its region at that moment,
    awaiting,         \* download() is suspended at the await of an attempt
    in_flight,        \* executor threads of this call's attempts still running
    starts,           \* history: the attempts of this call, in the order started
    interfered        \* history: another call touched the rotator during this call

rotator_vars == <<proxies, current_index, failed_proxies, selected>>

service_vars == <<api_key, credentials, region_cookies_cache>>

call_vars == <<pc, entry, use_rotation, current_proxy, region, auth_bundle, script,
               proxies_to_try, proxy_idx, strategy_pos, errors, attempts,
               refresh_calls, escalations, failed_at_build, outcome>>

cache_vars == <<clock, ticks, cookie_cache, cookie_files, cached_read>>

select_vars == <<formats, urls, urls_before>>

classify_vars == <<classified>>

endpoint_vars == <<ep_pc, ep_attempt, ep_region, ep_cookie_file_path,
                   ep_cached_first, ep_refreshes, ep_runs, ep_outcome>>

token_vars == <<token_call>>

task_vars == <<tasks, qwen_api_key>>

refresh_vars == <<environ, refresh, jar, minted, stored, returned>>

flight_vars == <<awaiting, in_flight, starts, interfered>>

other_vars == <<classify_vars, endpoint_vars, token_vars, task_vars, refresh_vars,
                flight_vars>>

vars == <<rotator_vars, service_vars, call_vars, cache_vars, select_vars,
          other_vars>>

-----------------------------------------------------------------------------
(* Bounds of the model *)

\* largest size of the configured proxy pool
MaxProxies == 3

\* how many times the clock advances in a behaviour of the cache
MaxTicks == 3

\* largest number of renditions of an extracted video
MaxFormats == 3

\* how many tasks are submitted in a behaviour
MaxTasks == 2

\* how many callers refresh credentials concurrently
MaxCallers == 2

\* how many browser sessions deliver cookies in a behaviour
MaxSessions == 2

\* how many different returns of refresh calls are followed in a behaviour
MaxReturned == 3

-----------------------------------------------------------------------------
(* Text *)

UpperCase == <<"A","B","C","D","E","F","G","H","I","J","K","L","M","N","O","P","Q","R","S","T","U","V","W","X","Y","Z">>

LowerCase == <<"a","b","c","d","e","f","g","h","i","j","k","l","m","n","o","p","q","r","s","t","u","v","w","x","y","z">>

\* str.lower() on one character
LowerChar(c) ==
    IF \E i \in 1..Len(UpperCase) : UpperCase[i] = c
    THEN LowerCase[CHOOSE i \in 1..Len(UpperCase) : UpperCase[i] = c]
    ELSE c

\* str.lower()
Lower(s) == [i \in 1..Len(s) |-> LowerChar(s[i])]

\* Python's  keyword in text
Contains(text, keyword) ==
    \E i \in 1..(Len(text) - Len(keyword) + 1) :
        SubSeq(text, i, i + Len(keyword) - 1) = keyword

Digits == <<"1","2","3","4","5","6","7","8","9">>

\* the messages of the exceptions the upstream raises in the model
Messages ==
    { "Sign in to confirm you're not a bot",
      "429 too many requests",
      "HTTP Error 403: Forbidden",
      "Video unavailable" }

\* str(e): the characters of an exception message
MessageText(e) ==
    CASE e = "Sign in to confirm you're not a bot" ->
        <<"S","i","g","n"," ","i","n"," ","t","o"," ","c","o","n","f","i","r","m"," ","y","o","u","'","r","e"," ","n","o","t"," ","a"," ","b","o","t">>
    [] e = "429 too many requests" ->
        <<"4","2","9"," ","t","o","o"," ","m","a","n","y"," ","r","e","q","u","e","s","t","s">>
    [] e = "HTTP Error 403: Forbidden" ->
        <<"H","T","T","P"," ","E","r","r","o","r"," ","4","0","3",":"," ","F","o","r","b","i","d","d","e","n">>
    [] e = "Video unavailable" ->
        <<"V","i","d","e","o"," ","u","n","a","v","a","i","l","a","b","l","e">>

-----------------------------------------------------------------------------
(* Failure classifiers *)

bot_keywords ==
    << <<"s","i","g","n"," ","i","n"," ","t","o"," ","c","o","n","f","i","r","m">>,
       <<"n","o","t"," ","a"," ","b","o","t">>,
       <<"c","o","n","f","i","r","m"," ","y","o","u","'","r","e"," ","n","o","t"," ","a"," ","b","o","t">>,
       <<"v","e","r","i","f","y"," ","y","o","u"," ","a","r","e"," ","h","u","m","a","n">>,
       <<"c","a","p","t","c","h","a">>,
       <<"u","n","u","s","u","a","l"," ","t","r","a","f","f","i","c">>,
       <<"a","u","t","o","m","a","t","e","d"," ","q","u","e","r","i","e","s">>,
       <<"t","o","o"," ","m","a","n","y"," ","r","e","q","u","e","s","t","s">>,
       <<"r","a","t","e"," ","l","i","m","i","t"," ","e","x","c","e","e","d","e","d">>,
       <<"p","l","e","a","s","e"," ","t","r","y"," ","a","g","a","i","n"," ","l","a","t","e","r">>,
       <<"f","a","i","l","e","d"," ","t","o"," ","e","x","t","r","a","c","t"," ","a","n","y"," ","p","l","a","y","e","r"," ","r","e","s","p","o","n","s","e">>,
       <<"u","n","a","b","l","e"," ","t","o"," ","e","x","t","r","a","c","t">>,
       <<"s","i","g","n"," ","i","n"," ","t","o"," ","c","o","n","f","i","r","m"," ","y","o","u","r"," ","a","g","e">> >>

\* downloader.is_bot_detection_error(error_msg)
is_bot_detection_error(error_msg) ==
    LET error_lower == Lower(error_msg)
    IN  \E k \in 1..Len(bot_keywords) : Contains(error_lower, bot_keywords[k])

\* variant of the keyword list without '403'
block_keywords_without_403 ==
    << <<"b","l","o","c","k","e","d">>,
       <<"b","o","t">>,
       <<"c","a","p","t","c","h","a">>,
       <<"r","a","t","e"," ","l","i","m","i","t">> >>

\* ['403', 'blocked', 'bot', 'captcha', 'rate limit']  (downloader.py:749)
block_keywords ==
    << <<"4","0","3">>,
       <<"b","l","o","c","k","e","d">>,
       <<"b","o","t">>,
       <<"c","a","p","t","c","h","a">>,
       <<"r","a","t","e"," ","l","i","m","i","t">> >>

\* the IP-block test of download(): any(keyword in str(e).lower() ...)
is_ip_block(error_str) ==
    LET error_lower == Lower(error_str)
    IN  \E k \in 1..Len(block_keywords) : Contains(error_lower, block_keywords[k])

\* the keyword list of url_extractor.is_bot_detection_error: the list of the
\* downloader, then '403'
url_extractor_bot_keywords ==
    bot_keywords \o << <<"4","0","3">> >>

\* url_extractor.is_bot_detection_error(error_msg)
url_extractor_is_bot_detection_error(error_msg) ==
    LET error_lower == Lower(error_msg)
    IN  \E k \in 1..Len(url_extractor_bot_keywords) :
            Contains(error_lower, url_extractor_bot_keywords[k])

\* str.upper() on one character
UpperChar(c) ==
    IF \E i \in 1..Len(LowerCase) : LowerCase[i] = c
    THEN UpperCase[CHOOSE i \in 1..Len(LowerCase) : LowerCase[i] = c]
    ELSE c

\* str.upper()
Upper(s) == [i \in 1..Len(s) |-> UpperChar(s[i])]

\* str.capitalize() of a lower-case text
Capitalize(s) == [i \in 1..Len(s) |-> IF i = 1 THEN UpperChar(s[i]) ELSE s[i]]

\* phrases of upstream error messages: the anti-automation phrases, and
\* phrases of failures that are not anti-automation measures
ErrorPhrases ==
    { <<"c","o","n","f","i","r","m"," ","y","o","u","'","r","e"," ","n","o","t"," ","a"," ","b","o","t">>,
      <<"u","n","u","s","u","a","l"," ","t","r","a","f","f","i","c">>,
      <<"c","a","p","t","c","h","a">>,
      <<"r","a","t","e"," ","l","i","m","i","t"," ","e","x","c","e","e","d","e","d">>,
      <<"4","0","3">>,
      <<"f","a","i","l","e","d"," ","t","o"," ","e","x","t","r","a","c","t"," ","a","n","y"," ","p","l","a","y","e","r"," ","r","e","s","p","o","n","s","e">>,
      <<"v","i","d","e","o"," ","u","n","a","v","a","i","l","a","b","l","e">>,
      <<"p","r","i","v","a","t","e"," ","v","i","d","e","o">>,
      <<"4","0","4">> }

\* what precedes the phrase in a message
ErrorPrefixes ==
    { <<>>,
      <<"E","R","R","O","R",":"," ">>,
      <<"H","T","T","P"," ","E","r","r","o","r"," ">> }

\* what follows the phrase in a message
ErrorSuffixes ==
    { <<>>,
      <<":"," ","F","o","r","b","i","d","d","e","n">> }

\* the messages handed to the classifiers: each phrase in lower case, in
\* upper case and capitalised, inside a message
ClassifierInputs ==
    { prefix \o phrase \o suffix :
        prefix \in ErrorPrefixes,
        phrase \in UNION {{p, Upper(p), Capitalize(p)} : p \in ErrorPhrases},
        suffix \in ErrorSuffixes }

NoClassification == [op |-> "none"]

\* one message is classified by the function of downloader.py and by the
\* function of url_extractor.py
Classify ==
    \E error_msg \in ClassifierInputs :
        classified' = [op |-> "is_bot_detection_error",
                       error_msg |-> error_msg,
                       downloader |-> is_bot_detection_error(error_msg),
                       url_extractor |-> url_extractor_is_bot_detection_error(error_msg)]

InitClassify ==
    classified = NoClassification

-----------------------------------------------------------------------------
(* ProxyRotator *)

\* Optional[str] None, for a proxy
NoProxy == 0

Range(s) == {s[i] : i \in 1..Len(s)}

\* settings.youtube_proxy_list: the configured addresses, empty entries dropped
ProxyPools == {[i \in 1..n |-> i] : n \in 0..MaxProxies}

\* [p for p in self.proxies if p not in self.failed_proxies]
Available(pool, failed) == SelectSeq(pool, LAMBDA p : p \notin failed)

\* ProxyRotator.get_random: the failed set after the call
get_random_failed(pool, failed) ==
    IF Available(pool, failed) = <<>> THEN {} ELSE failed

\* variant of get_random without the reset of the failed set: nothing is
\* available, so None is returned
get_random_choices_no_reset(pool, failed) ==
    IF Available(pool, failed) = <<>>
    THEN {NoProxy}
    ELSE Range(Available(pool, failed))

\* ProxyRotator.get_random: the proxies random.choice may return (none: None)
get_random_choices(pool, failed) ==
    LET available == IF Available(pool, failed) = <<>>
                     THEN pool
                     ELSE Available(pool, failed)
    IN  IF available = <<>> THEN {NoProxy} ELSE Range(available)

\* ProxyRotator.get_next: the proxy returned (the cursor is 0-based)
get_next_result(pool, index) ==
    IF pool = <<>> THEN NoProxy ELSE pool[index + 1]

\* ProxyRotator.mark_failed: the failed set after the call
mark_failed(failed, proxy) ==
    IF proxy # NoProxy THEN failed \cup {proxy} ELSE failed

\* ProxyRotator.mark_success: the failed set after the call
mark_success(failed, proxy) == failed \ {proxy}

\* ProxyRotator.get_all
get_all(pool, failed) == pool

NoSelection == [op |-> "none", result |-> NoProxy, failed_before |-> {}]

GetRandom ==
    /\ \E p \in get_random_choices(proxies, failed_proxies) :
           selected' = [op |-> "get_random", result |-> p,
                        failed_before |-> failed_proxies]
    /\ failed_proxies' = get_random_failed(proxies, failed_proxies)
    /\ UNCHANGED <<proxies, current_index>>

GetNext ==
    /\ selected' = [op |-> "get_next",
                    result |-> get_next_result(proxies, current_index),
                    failed_before |-> failed_proxies]
    /\ current_index' = IF proxies = <<>> THEN current_index
                        ELSE (current_index + 1) % Len(proxies)
    /\ UNCHANGED <<proxies, failed_proxies>>

\* callers pass a proxy of the pool, or None
MarkFailed ==
    /\ \E p \in Range(proxies) \cup {NoProxy} :
           failed_proxies' = mark_failed(failed_proxies, p)
    /\ selected' = NoSelection
    /\ UNCHANGED <<proxies, current_index>>

MarkSuccess ==
    /\ \E p \in Range(proxies) \cup {NoProxy} :
           failed_proxies' = mark_success(failed_proxies, p)
    /\ selected' = NoSelection
    /\ UNCHANGED <<proxies, current_index>>

InitRotator ==
    /\ proxies \in ProxyPools
    /\ current_index = 0
    /\ failed_proxies = {}
    /\ selected = NoSelection

-----------------------------------------------------------------------------
(* AuthenticationBundle (models.py:146-226) *)

\* Optional[AuthenticationBundle] None
NoBundle == [none |-> TRUE]

\* AuthenticationBundle.has_tokens
has_tokens(bundle) == bundle.po_token # "None" \/ bundle.visitor_data # "None"

\* AuthenticationBundle.get_formatted_po_token
get_formatted_po_token(po_token) ==
    CASE po_token = "None" -> "None"
      [] po_token = "web+tok" -> po_token
      [] OTHER -> "web+tok"

-----------------------------------------------------------------------------
(* AgentGoService (agentgo_service.py) *)

\* module flag set by the playwright import (agentgo_service.py:37-41)
HAS_PLAYWRIGHT == TRUE

\* settings.agentgo_region
default_region == "us"

SUPPORTED_REGIONS == {"us", "uk", "de", "fr", "jp", "sg", "in", "au", "ca"}

\* variant of is_configured that tests the API key alone
is_configured_api_only(key, creds) == key

\* AgentGoService.is_configured
is_configured(key, creds) == key /\ creds

\* AgentGoService.is_api_configured
is_api_configured(key) == key

\* what the remote browser session yields: nothing (connection, cookie or
\* validation failure), cookies only, cookies with visitor data, or cookies
\* with visitor data and PO token
BrowserOutcomes == {"fail", "fail_after_save", "cookies", "visitor", "tokens"}

\* the AuthenticationBundle built at agentgo_service.py:1994-2006
ExtractedBundle(o, reg) ==
    [po_token |-> IF o = "tokens" THEN "tok" ELSE "None",
     visitor_data |-> IF o \in {"visitor", "tokens"} THEN "vis" ELSE "None",
     region |-> reg,
     cookie_file_path |-> reg,
     fresh |-> TRUE]

\* the cookies-only bundle built from a cached cookie file
\* (agentgo_service.py:2095-2102)
CachedBundle(reg) ==
    [po_token |-> "None", visitor_data |-> "None", region |-> reg,
     cookie_file_path |-> reg, fresh |-> FALSE]

\* AgentGoService.get_youtube_authentication_bundle: the possible pairs of
\* returned bundle and region cache after the call
get_youtube_authentication_bundle(reg_arg, force_refresh, key, cache) ==
    LET reg0 == IF reg_arg = "None" THEN default_region ELSE reg_arg
        reg == IF reg0 \in SUPPORTED_REGIONS THEN reg0 ELSE "us"
        cached == ~force_refresh /\ reg \in cache
    IN  IF ~HAS_PLAYWRIGHT \/ ~is_api_configured(key)
        THEN {[bundle |-> NoBundle, cache |-> cache]}
        ELSE IF force_refresh \/ ~cached
        THEN {[bundle |-> IF o \in {"fail", "fail_after_save"}
                          THEN NoBundle ELSE ExtractedBundle(o, reg),
               cache |-> IF o = "fail" THEN cache ELSE cache \cup {reg}]
              : o \in BrowserOutcomes}
        ELSE {[bundle |-> CachedBundle(reg), cache |-> cache]}

-----------------------------------------------------------------------------
(* ExtractionStrategyMatrix: YouTubeDownloader._get_strategy_config *)

\* variant of the loop's list that leaves the web-only strategy out
Strategies_without_web == <<1, 2, 4>>

\* for strategy in [1, 2, 3, 4]  (downloader.py:716)
Strategies == <<1, 2, 3, 4>>

\* variant of the retry's list with the tv_embedded strategy
RetryStrategies_with_tv == <<1, 4>>

\* for strategy in [1, 3]  (downloader.py:844)
RetryStrategies == <<1, 3>>

\* proxies_to_try[:2]  (downloader.py:843)
RetryProxies(list) == SubSeq(list, 1, IF Len(list) < 2 THEN Len(list) ELSE 2)

\* the player_client list of the strategies dict; unknown numbers get entry 1
player_client(strategy) ==
    CASE strategy = 1 -> <<"ios", "web">>
      [] strategy = 2 -> <<"android", "web">>
      [] strategy = 3 -> <<"web">>
      [] strategy = 4 -> <<"tv_embedded">>
      [] OTHER -> <<"ios", "web">>

\* strategy == 3 or 'web' in player_client  (downloader.py:538)
token_eligible(strategy) ==
    strategy = 3 \/ "web" \in Range(player_client(strategy))

\* _get_strategy_config: the extractor_args of one attempt
get_strategy_config(strategy, bundle) ==
    LET enhance == bundle # NoBundle /\ has_tokens(bundle) /\ token_eligible(strategy)
    IN  [player_client |-> player_client(strategy),
         po_token |-> IF enhance THEN get_formatted_po_token(bundle.po_token)
                      ELSE "None",
         visitor_data |-> IF enhance THEN bundle.visitor_data ELSE "None"]

-----------------------------------------------------------------------------
(* YouTubeDownloader.download and download_youtube_video *)

\* proxy_label = proxy or "direct", as text
ProxyText(proxy) ==
    IF proxy = NoProxy
    THEN <<"d","i","r","e","c","t">>
    ELSE <<"h","t","t","p",":","/","/","1","2","7",".","0",".","0",".","1",":","3","3","2","1">>
         \o <<Digits[proxy]>>

\* error_msg = f"Strategy {strategy} with proxy {proxy_label} failed after
\* {attempt_duration:.2f}s: {str(e)}", as text  (downloader.py:743)
error_text(err) ==
    <<"S","t","r","a","t","e","g","y"," ">> \o <<Digits[err.strategy]>>
    \o <<" ","w","i","t","h"," ","p","r","o","x","y"," ">> \o ProxyText(err.proxy)
    \o <<" ","f","a","i","l","e","d"," ","a","f","t","e","r"," ","0",".","0","0","s",":"," ">>
    \o MessageText(err.e)

\* every error_msg download() can build
ErrorMessages == [strategy : Range(Strategies), proxy : 0..MaxProxies, e : Messages]

\* the error messages e with is_bot_detection_error(e), tabulated
BotDetectionErrors ==
    {err \in {x : x \in ErrorMessages} : is_bot_detection_error(error_text(err))}

\* the exception messages that pass the IP-block test, tabulated
IpBlockMessages == {e \in Messages : is_ip_block(MessageText(e))}

\* bot_detection = any(is_bot_detection_error(e) for e in errors)
bot_detection(errs) == \E i \in 1..Len(errs) : errs[i] \in BotDetectionErrors

\* self.proxy_rotator is truthy: it exists and its pool is not empty (__len__)
rotator_truthy == use_rotation /\ Len(proxies) > 0

\* variant that keeps every error
last_errors_all(errs) == errs

\* errors[-3:]
last_errors(errs) ==
    IF Len(errs) <= 3 THEN errs ELSE SubSeq(errs, Len(errs) - 2, Len(errs))

\* the bundles a caller passes to the constructor: none, or one with tokens
CallerBundles == {NoBundle, ExtractedBundle("visitor", "us")}

\* YouTubeDownloader.__init__ for a call of the given entry point
NewCall(en, rotate, reg, b) ==
    /\ pc \in {"idle", "returned", "raised"}
    /\ entry' = en
    /\ use_rotation' = rotate
    /\ current_proxy' = IF ~rotate /\ Len(proxies) > 0 THEN proxies[1] ELSE NoProxy
    /\ region' = reg
    /\ auth_bundle' = b
    /\ pc' = IF en = "download_youtube_video" /\ reg # "None" /\ b = NoBundle
             THEN "prefetch" ELSE "begin"
    /\ script' = <<>>
    /\ proxies_to_try' = <<>>
    /\ proxy_idx' = 1
    /\ strategy_pos' = 1
    /\ errors' = <<>>
    /\ attempts' = <<>>
    /\ refresh_calls' = 0
    /\ escalations' = 0
    /\ failed_at_build' = {}
    /\ outcome' = [kind |-> "none"]
    /\ UNCHANGED <<rotator_vars, service_vars>>

\* a caller constructs a YouTubeDownloader and awaits download();
\* rotate = FALSE stands for an explicit proxy, the first configured address
StartDownload ==
    \E rotate \in BOOLEAN, b \in CallerBundles :
        /\ b \in CallerBundles
        /\ NewCall("download", rotate, "None", b)

\* a caller awaits download_youtube_video(url, dir, region=..., auth_bundle=...)
StartQuick ==
    \E reg \in {"None", "us"}, b \in CallerBundles :
        /\ reg = "None" => b = NoBundle
        /\ NewCall("download_youtube_video", TRUE, reg, b)

\* prefetch_authentication_for_region, run to its end
Prefetch ==
    /\ pc = "prefetch"
    /\ pc' = "begin"
    /\ IF ~is_api_configured(api_key)
       THEN UNCHANGED <<auth_bundle, refresh_calls, region_cookies_cache>>
       ELSE \E r1 \in get_youtube_authentication_bundle(region, FALSE, api_key,
                                                       region_cookies_cache) :
              IF r1.bundle # NoBundle
              THEN /\ auth_bundle' = r1.bundle
                   /\ refresh_calls' = refresh_calls + 1
                   /\ region_cookies_cache' = r1.cache
              ELSE \E r2 \in get_youtube_authentication_bundle(region, TRUE, api_key,
                                                              r1.cache) :
                     /\ auth_bundle' = r2.bundle
                     /\ refresh_calls' = refresh_calls + 2
                     /\ region_cookies_cache' = r2.cache
    /\ UNCHANGED <<rotator_vars, api_key, credentials, entry, use_rotation,
                   current_proxy, region, script, proxies_to_try, proxy_idx,
                   strategy_pos, errors, attempts, escalations, failed_at_build,
                   outcome>>

\* download_youtube_video: the 60 s wait_for around the prefetch expires while
\* the first or the second browser session is pending; the prefetch is
\* cancelled, the bundle stays unset and the download goes on
PrefetchTimeout ==
    /\ pc = "prefetch"
    /\ is_api_configured(api_key)
    /\ region \notin region_cookies_cache
    /\ pc' = "begin"
    /\ \E r \in get_youtube_authentication_bundle(region, FALSE, api_key,
                                                 region_cookies_cache) :
          /\ region_cookies_cache' = r.cache
          /\ refresh_calls' \in
                IF r.bundle = NoBundle
                THEN {refresh_calls + 1, refresh_calls + 2}
                ELSE {refresh_calls + 1}
    /\ UNCHANGED <<rotator_vars, api_key, credentials, entry, use_rotation,
                   current_proxy, region, auth_bundle, script, proxies_to_try,
                   proxy_idx, strategy_pos, errors, attempts, escalations,
                   failed_at_build, outcome>>

\* the scripted upstream of one call: the exception message a failing attempt
\* gets depends on the egress address; the first entry of proxies_to_try has
\* one message, the entries after it share one
Scripts(n) ==
    {f \in [1..n -> Messages] : \A i \in 2..n : f[i] = f[n]}

\* download(): the prologue up to the proxy x strategy loop
DownloadBegin ==
    /\ pc = "begin"
    /\ proxies_to_try' =
          IF use_rotation /\ rotator_truthy /\ Len(proxies) > 0
          THEN get_all(proxies, failed_proxies)
          ELSE <<current_proxy>>
    /\ failed_at_build' = failed_proxies
    /\ script' \in Scripts(Len(proxies_to_try'))
    /\ errors' = <<>>
    /\ proxy_idx' = 1
    /\ strategy_pos' = 1
    /\ pc' = "loop"
    /\ UNCHANGED <<rotator_vars, service_vars, entry, use_rotation, current_proxy,
                   region, auth_bundle, attempts, refresh_calls, escalations,
                   outcome>>

\* one record of the attempts history: a _download_with_strategy call made
\* at position idx of the proxy list, its extractor configuration, whether
\* the downloader held a bundle with tokens, and "ok" or the message raised
Attempt(phase, idx, proxy, strategy, result) ==
    [phase |-> phase, idx |-> idx, proxy |-> proxy, strategy |-> strategy,
     config |-> get_strategy_config(strategy, auth_bundle),
     bundle |-> auth_bundle # NoBundle,
     tokens |-> auth_bundle # NoBundle /\ has_tokens(auth_bundle),
     result |-> result]

\* an attempt of the loop succeeds: mark_success, return result
AttemptSucceeds ==
    /\ pc = "loop"
    /\ LET proxy == proxies_to_try[proxy_idx]
           strategy == Strategies[strategy_pos]
       IN  /\ attempts' = Append(attempts,
                                 Attempt("loop", proxy_idx, proxy, strategy, "ok"))
           /\ failed_proxies' =
                 IF rotator_truthy /\ proxy # NoProxy
                 THEN mark_success(failed_proxies, proxy)
                 ELSE failed_proxies
           /\ outcome' = [kind |-> "result", phase |-> "loop", proxy |-> proxy,
                          strategy |-> strategy]
    /\ pc' = "returned"
    /\ UNCHANGED <<proxies, current_index, selected, service_vars, entry,
                   use_rotation, current_proxy, region, auth_bundle, script,
                   proxies_to_try, proxy_idx, strategy_pos, errors, refresh_calls,
                   escalations, failed_at_build>>

\* an attempt of the loop raises: record the error, then break or continue
AttemptFails ==
    /\ pc = "loop"
    /\ LET proxy == proxies_to_try[proxy_idx]
           strategy == Strategies[strategy_pos]
           e == script[proxy_idx]
           blocked == e \in IpBlockMessages
           next_proxy == blocked \/ strategy_pos = Len(Strategies)
       IN  /\ attempts' = Append(attempts,
                                 Attempt("loop", proxy_idx, proxy, strategy, e))
           /\ errors' = Append(errors, [strategy |-> strategy, proxy |-> proxy, e |-> e])
           /\ failed_proxies' =
                 IF blocked /\ rotator_truthy /\ proxy # NoProxy
                 THEN mark_failed(failed_proxies, proxy)
                 ELSE failed_proxies
           /\ proxy_idx' = IF next_proxy THEN proxy_idx + 1 ELSE proxy_idx
           /\ strategy_pos' = IF next_proxy THEN 1 ELSE strategy_pos + 1
           /\ pc' = IF next_proxy /\ proxy_idx = Len(proxies_to_try)
                    THEN "loop_done" ELSE "loop"
    /\ UNCHANGED <<proxies, current_index, selected, service_vars, entry,
                   use_rotation, current_proxy, region, auth_bundle, script,
                   proxies_to_try, refresh_calls, escalations, failed_at_build,
                   outcome>>

\* raise DownloadError(... Last errors: errors[-3:])
RaisedDownloadError ==
    [kind |-> "DownloadError", timed_out |-> FALSE, after_loop |-> TRUE,
     tried |-> Len(proxies_to_try), last_errors |-> last_errors(errors)]

\* DownloadError(f"Download timed out after {timeout} seconds")
TimedOutError(after_loop) ==
    [kind |-> "DownloadError", timed_out |-> TRUE, after_loop |-> after_loop]

\* variant of download() that drops the result of the fallback
fallback_outcome_dropped(result) == RaisedDownloadError

\* download() after _try_agentgo_fallback:  if result: return result,
\* else fall through to the raise
fallback_outcome(result) ==
    IF result.kind = "result" THEN result ELSE RaisedDownloadError

\* after the loop: no bot detection among the errors, raise
LoopFailed ==
    /\ pc = "loop_done"
    /\ ~bot_detection(errors)
    /\ outcome' = RaisedDownloadError
    /\ pc' = "raised"
    /\ UNCHANGED <<rotator_vars, service_vars, entry, use_rotation, current_proxy,
                   region, auth_bundle, script, proxies_to_try, proxy_idx,
                   strategy_pos, errors, attempts, refresh_calls, escalations,
                   failed_at_build>>

\* after the loop: bot detection, _try_agentgo_fallback up to its retry loop
Escalate ==
    /\ pc = "loop_done"
    /\ bot_detection(errors)
    /\ IF ~is_configured(api_key, credentials)
       THEN /\ outcome' = fallback_outcome([kind |-> "None"])
            /\ pc' = "raised"
            /\ UNCHANGED <<auth_bundle, refresh_calls, escalations,
                           region_cookies_cache, proxy_idx, strategy_pos>>
       ELSE \E r \in get_youtube_authentication_bundle(region, TRUE, api_key,
                                                      region_cookies_cache) :
              /\ refresh_calls' = refresh_calls + 1
              /\ escalations' = escalations + 1
              /\ region_cookies_cache' = r.cache
              /\ IF r.bundle = NoBundle
                 THEN /\ outcome' = fallback_outcome([kind |-> "None"])
                      /\ pc' = "raised"
                      /\ UNCHANGED <<auth_bundle, proxy_idx, strategy_pos>>
                 ELSE /\ auth_bundle' = r.bundle
                      /\ proxy_idx' = 1
                      /\ strategy_pos' = 1
                      /\ pc' = "retry"
                      /\ UNCHANGED outcome
    /\ UNCHANGED <<rotator_vars, api_key, credentials, entry, use_rotation,
                   current_proxy, region, script, proxies_to_try, errors, attempts,
                   failed_at_build>>

\* a retry of _try_agentgo_fallback succeeds: return result
RetrySucceeds ==
    /\ pc = "retry"
    /\ LET proxy == RetryProxies(proxies_to_try)[proxy_idx]
           strategy == RetryStrategies[strategy_pos]
       IN  /\ attempts' = Append(attempts,
                                 Attempt("retry", proxy_idx, proxy, strategy, "ok"))
           /\ outcome' = fallback_outcome([kind |-> "result", phase |-> "retry",
                                           proxy |-> proxy, strategy |-> strategy])
    /\ pc' = IF outcome'.kind = "result" THEN "returned" ELSE "raised"
    /\ UNCHANGED <<rotator_vars, service_vars, entry, use_rotation, current_proxy,
                   region, auth_bundle, script, proxies_to_try, proxy_idx,
                   strategy_pos, errors, refresh_calls, escalations,
                   failed_at_build>>

\* a retry of _try_agentgo_fallback raises: log, continue; after the last
\* one return None, and download() raises
RetryFails ==
    /\ pc = "retry"
    /\ LET proxy == RetryProxies(proxies_to_try)[proxy_idx]
           strategy == RetryStrategies[strategy_pos]
           e == script[proxy_idx]
           next_proxy == strategy_pos = Len(RetryStrategies)
           last == next_proxy /\ proxy_idx = Len(RetryProxies(proxies_to_try))
       IN  /\ attempts' = Append(attempts,
                                 Attempt("retry", proxy_idx, proxy, strategy, e))
           /\ proxy_idx' = IF next_proxy THEN proxy_idx + 1 ELSE proxy_idx
           /\ strategy_pos' = IF next_proxy THEN 1 ELSE strategy_pos + 1
           /\ pc' = IF last THEN "raised" ELSE "retry"
           /\ outcome' = IF last THEN fallback_outcome([kind |-> "None"])
                         ELSE outcome
    /\ UNCHANGED <<rotator_vars, service_vars, entry, use_rotation, current_proxy,
                   region, auth_bundle, script, proxies_to_try, errors,
                   refresh_calls, escalations, failed_at_build>>

\* download_youtube_video: asyncio.wait_for expires while an attempt of the
\* loop or of the retry is pending; download() is cancelled and
\* DownloadError("... timed out ...") is raised
Timeout ==
    /\ entry = "download_youtube_video"
    /\ pc \in {"loop", "retry"}
    /\ outcome' = TimedOutError(pc = "retry")
    /\ pc' = "raised"
    /\ UNCHANGED <<rotator_vars, service_vars, entry, use_rotation, current_proxy,
                   region, auth_bundle, script, proxies_to_try, proxy_idx,
                   strategy_pos, errors, attempts, refresh_calls, escalations,
                   failed_at_build>>

\* download_youtube_video: asyncio.wait_for expires while the browser session
\* of the escalation is pending; the session may have saved its cookies
EscalateTimeout ==
    /\ entry = "download_youtube_video"
    /\ pc = "loop_done"
    /\ bot_detection(errors)
    /\ is_configured(api_key, credentials)
    /\ \E r \in get_youtube_authentication_bundle(region, TRUE, api_key,
                                                 region_cookies_cache) :
          region_cookies_cache' = r.cache
    /\ refresh_calls' = refresh_calls + 1
    /\ escalations' = escalations + 1
    /\ outcome' = TimedOutError(TRUE)
    /\ pc' = "raised"
    /\ UNCHANGED <<rotator_vars, api_key, credentials, entry, use_rotation,
                   current_proxy, region, auth_bundle, script, proxies_to_try,
                   proxy_idx, strategy_pos, errors, attempts, failed_at_build>>

-----------------------------------------------------------------------------
(* YouTubeURLExtractor.extract and extract_youtube_urls (url_extractor.py) *)

\* strategies = [1, 4]  (url_extractor.py:607)
ExtractStrategies == <<1, 4>>

\* YouTubeURLExtractor._build_opts: the youtube extractor_args of an attempt
build_opts(strategy, bundle) ==
    IF bundle # NoBundle /\ has_tokens(bundle)
    THEN [player_client |-> <<"web">>,
          po_token |-> IF bundle.po_token = "None" THEN "None"
                       ELSE IF bundle.visitor_data # "None" THEN "web+vis+tok"
                       ELSE "web+tok",
          visitor_data |-> bundle.visitor_data]
    ELSE IF strategy = 4
    THEN [player_client |-> <<"tv_embedded">>, po_token |-> "None",
          visitor_data |-> "None"]
    ELSE [player_client |-> <<>>, po_token |-> "None", visitor_data |-> "None"]

\* one record of the attempts history: an extract_info call of extract()
ExtractAttempt(pos, proxy, strategy, result) ==
    [phase |-> "extract", idx |-> pos, proxy |-> proxy, strategy |-> strategy,
     config |-> build_opts(strategy, auth_bundle),
     bundle |-> auth_bundle # NoBundle,
     tokens |-> auth_bundle # NoBundle /\ has_tokens(auth_bundle),
     result |-> result]

\* a caller awaits extract_youtube_urls(url, resolution, region, auth_bundle):
\* YouTubeURLExtractor.__init__ takes the first configured proxy
StartExtract ==
    /\ pc \in {"idle", "returned", "raised"}
    /\ \E reg \in {"None", "us"}, b \in CallerBundles :
          /\ reg = "None" => b = NoBundle
          /\ region' = reg
          /\ auth_bundle' = b
          /\ pc' = IF reg # "None" /\ b = NoBundle THEN "x_prefetch" ELSE "x_extract"
    /\ entry' = "extract_youtube_urls"
    /\ use_rotation' = FALSE
    /\ current_proxy' = IF Len(proxies) > 0 THEN proxies[1] ELSE NoProxy
    /\ script' \in [1..Len(ExtractStrategies) -> Messages]
    /\ proxies_to_try' = <<>>
    /\ proxy_idx' = 1
    /\ strategy_pos' = 1
    /\ errors' = <<>>
    /\ attempts' = <<>>
    /\ refresh_calls' = 0
    /\ escalations' = 0
    /\ failed_at_build' = {}
    /\ outcome' = [kind |-> "none"]
    /\ UNCHANGED <<rotator_vars, service_vars>>

\* YouTubeURLExtractor.prefetch_authentication, run to its end
ExtractPrefetch ==
    /\ pc = "x_prefetch"
    /\ pc' = "x_extract"
    /\ IF ~is_api_configured(api_key)
       THEN UNCHANGED <<auth_bundle, refresh_calls, region_cookies_cache>>
       ELSE \E r \in get_youtube_authentication_bundle(region, FALSE, api_key,
                                                      region_cookies_cache) :
              /\ auth_bundle' = r.bundle
              /\ refresh_calls' = refresh_calls + 1
              /\ region_cookies_cache' = r.cache
    /\ UNCHANGED <<rotator_vars, api_key, credentials, entry, use_rotation,
                   current_proxy, region, script, proxies_to_try, proxy_idx,
                   strategy_pos, errors, attempts, escalations, failed_at_build,
                   outcome>>

\* extract_youtube_urls: the 30 s wait_for around the prefetch expires while
\* the browser session is pending; the extraction goes on without a bundle
ExtractPrefetchTimeout ==
    /\ pc = "x_prefetch"
    /\ is_api_configured(api_key)
    /\ region \notin region_cookies_cache
    /\ pc' = "x_extract"
    /\ \E r \in get_youtube_authentication_bundle(region, FALSE, api_key,
                                                 region_cookies_cache) :
          region_cookies_cache' = r.cache
    /\ refresh_calls' = refresh_calls + 1
    /\ UNCHANGED <<rotator_vars, api_key, credentials, entry, use_rotation,
                   current_proxy, region, auth_bundle, script, proxies_to_try,
                   proxy_idx, strategy_pos, errors, attempts, escalations,
                   failed_at_build, outcome>>

\* raise ExtractionError(... '; '.join(errors[-3:]))
RaisedExtractionError(errs) ==
    [kind |-> "ExtractionError", last_errors |-> last_errors(errs)]

\* an extraction strategy returns info: extract() returns the ExtractedVideo
\* and extract_youtube_urls returns its dict
ExtractSucceeds ==
    /\ pc = "x_extract"
    /\ LET strategy == ExtractStrategies[strategy_pos]
       IN  /\ attempts' = Append(attempts,
                 ExtractAttempt(strategy_pos, current_proxy, strategy, "ok"))
           /\ outcome' = [kind |-> "result", phase |-> "extract",
                          proxy |-> current_proxy, strategy |-> strategy]
    /\ pc' = "returned"
    /\ UNCHANGED <<rotator_vars, service_vars, entry, use_rotation, current_proxy,
                   region, auth_bundle, script, proxies_to_try, proxy_idx,
                   strategy_pos, errors, refresh_calls, escalations,
                   failed_at_build>>

\* an extraction strategy raises (the error is recorded) or returns no info
\* (nothing is recorded); the next strategy is tried, and after the last one
\* ExtractionError is raised
ExtractFails ==
    /\ pc = "x_extract"
    /\ \E raised \in BOOLEAN :
          LET strategy == ExtractStrategies[strategy_pos]
              e == script[strategy_pos]
              errs == IF raised
                      THEN Append(errors, [strategy |-> strategy,
                                           proxy |-> current_proxy, e |-> e])
                      ELSE errors
              last == strategy_pos = Len(ExtractStrategies)
          IN  /\ attempts' = Append(attempts,
                    ExtractAttempt(strategy_pos, current_proxy, strategy,
                                   IF raised THEN e ELSE "no info"))
              /\ errors' = errs
              /\ strategy_pos' = IF last THEN strategy_pos ELSE strategy_pos + 1
              /\ pc' = IF last THEN "raised" ELSE "x_extract"
              /\ outcome' = IF last THEN RaisedExtractionError(errs) ELSE outcome
    /\ UNCHANGED <<rotator_vars, service_vars, entry, use_rotation, current_proxy,
                   region, auth_bundle, script, proxies_to_try, proxy_idx,
                   refresh_calls, escalations, failed_at_build>>

\* extract_youtube_urls: asyncio.wait_for around extract() expires while an
\* extraction is pending; asyncio.TimeoutError leaves extract_youtube_urls
ExtractTimeout ==
    /\ pc = "x_extract"
    /\ outcome' = [kind |-> "TimeoutError"]
    /\ pc' = "raised"
    /\ UNCHANGED <<rotator_vars, service_vars, entry, use_rotation, current_proxy,
                   region, auth_bundle, script, proxies_to_try, proxy_idx,
                   strategy_pos, errors, attempts, refresh_calls, escalations,
                   failed_at_build>>

-----------------------------------------------------------------------------
(* The per-region cookie cache of AgentGoService *)

\* Cookie expiry time (1 hour in seconds)
COOKIE_EXPIRY == 3600

\* the regions whose cache entries are followed
CacheRegions == {"us", "uk"}

\* the amounts of time that pass between two calls
TickSteps == {1, COOKIE_EXPIRY - 1, COOKIE_EXPIRY}

\* AgentGoService._get_cookie_file_path
get_cookie_file_path(reg) ==
    CASE reg = "us" -> "/tmp/youtube_cookies/cookies_us.txt"
      [] reg = "uk" -> "/tmp/youtube_cookies/cookies_uk.txt"

\* AgentGoService._get_cached_cookie_for_region
get_cached_cookie_for_region(cache, files, now, reg) ==
    IF reg \notin DOMAIN cache
    THEN "None"
    ELSE IF (now - cache[reg].timestamp) > COOKIE_EXPIRY
    THEN "None"
    ELSE IF cache[reg].cookie_file \notin files
    THEN "None"
    ELSE cache[reg].cookie_file

\* self._region_cookies_cache[region] = (cookie_path, time.time())
cache_put(cache, reg, cookie_path, now) ==
    [r \in (DOMAIN cache) \cup {reg} |->
        IF r = reg THEN [cookie_file |-> cookie_path, timestamp |-> now]
        ELSE cache[r]]

\* del self._region_cookies_cache[region]
cache_del(cache, reg) == [r \in (DOMAIN cache) \ {reg} |-> cache[r]]

NoRead == [op |-> "none"]

\* save_cookies_to_file(cookies, region): write the file, update the cache
SaveCookiesToFile ==
    /\ \E reg \in CacheRegions :
          /\ cookie_files' = cookie_files \cup {get_cookie_file_path(reg)}
          /\ cookie_cache' = cache_put(cookie_cache, reg,
                                       get_cookie_file_path(reg), clock)
    /\ cached_read' = NoRead
    /\ UNCHANGED <<clock, ticks>>

\* _get_cached_cookie_for_region(region), with what it read
GetCachedCookieForRegion ==
    /\ \E reg \in CacheRegions :
          cached_read' =
             [op |-> "read", region |-> reg, at |-> clock,
              cached |-> reg \in DOMAIN cookie_cache,
              timestamp |-> IF reg \in DOMAIN cookie_cache
                            THEN cookie_cache[reg].timestamp ELSE 0,
              file_exists |-> get_cookie_file_path(reg) \in cookie_files,
              result |-> get_cached_cookie_for_region(cookie_cache, cookie_files,
                                                      clock, reg)]
    /\ UNCHANGED <<clock, ticks, cookie_cache, cookie_files>>

\* invalidate_region_cache(region)
InvalidateRegionCache ==
    /\ \E reg \in CacheRegions :
          cookie_cache' = IF reg \in DOMAIN cookie_cache
                          THEN cache_del(cookie_cache, reg)
                          ELSE cookie_cache
    /\ cached_read' = NoRead
    /\ UNCHANGED <<clock, ticks, cookie_files>>

\* a cookie file under /tmp disappears
RemoveCookieFile ==
    /\ \E f \in cookie_files : cookie_files' = cookie_files \ {f}
    /\ cached_read' = NoRead
    /\ UNCHANGED <<clock, ticks, cookie_cache>>

\* time passes
Tick ==
    /\ ticks < MaxTicks
    /\ \E d \in TickSteps : clock' = clock + d
    /\ ticks' = ticks + 1
    /\ cached_read' = NoRead
    /\ UNCHANGED <<cookie_cache, cookie_files>>

InitCache ==
    /\ clock = 0
    /\ ticks = 0
    /\ cookie_cache = [r \in {} |-> [cookie_file |-> "None", timestamp |-> 0]]
    /\ cookie_files = {}
    /\ cached_read = NoRead

-----------------------------------------------------------------------------
(* VideoFormat and ExtractedVideo.get_download_urls (url_extractor.py) *)

\* A rendition: the fields of VideoFormat that the selection reads.  height
\* and tbr 0 stand for None, url "" for a missing URL, and googlevideo for
\* 'googlevideo.com' in url.
Format(id, url, protocol, googlevideo, ext, vcodec, acodec, height, tbr) ==
    [format_id |-> id, url |-> url, protocol |-> protocol,
     googlevideo |-> googlevideo, ext |-> ext, vcodec |-> vcodec,
     acodec |-> acodec, height |-> height, tbr |-> tbr]

\* the renditions an extraction may list: combined, video-only and audio-only
\* ones in MP4/M4A and WEBM, an HLS playlist, and one without URL
FormatCatalog ==
    { Format("18", "https://rr1.googlevideo.com/18", "https", TRUE,
             "mp4", "avc1", "mp4a", 360, 500),
      Format("44", "https://rr1.googlevideo.com/44", "https", TRUE,
             "webm", "vp9", "opus", 480, 800),
      Format("134", "https://rr1.googlevideo.com/134", "https", TRUE,
             "mp4", "avc1", "none", 360, 400),
      Format("247", "https://rr1.googlevideo.com/247", "https", TRUE,
             "webm", "vp9", "none", 720, 1500),
      Format("137", "https://rr1.googlevideo.com/137", "https", TRUE,
             "mp4", "avc1", "none", 1080, 3000),
      Format("96", "https://manifest.googlevideo.com/96.m3u8", "m3u8_native", TRUE,
             "mp4", "avc1", "none", 1080, 3000),
      Format("140", "https://rr1.googlevideo.com/140", "https", TRUE,
             "m4a", "none", "mp4a", 0, 128),
      Format("140-drc", "https://rr1.googlevideo.com/140-drc", "https", TRUE,
             "m4a", "none", "mp4a", 0, 128),
      Format("251", "https://rr1.googlevideo.com/251", "https", TRUE,
             "webm", "none", "opus", 0, 256),
      Format("248", "", "https", FALSE,
             "webm", "vp9", "none", 1080, 2500) }

\* info.get('formats', []): the lists of renditions of an extracted video
FormatLists ==
    UNION {[1..n -> FormatCatalog] : n \in 0..MaxFormats}

\* the resolution argument: values of ResolutionEnum below and from 720,
\* "best" and "audio"
Resolutions == {"480", "720", "1080", "best", "audio"}

\* VideoFormat.is_video
is_video(f) == f.vcodec # "none"

\* VideoFormat.is_audio
is_audio(f) == f.acodec # "none"

\* VideoFormat.is_video_only
is_video_only(f) == is_video(f) /\ ~is_audio(f)

\* VideoFormat.is_audio_only
is_audio_only(f) == is_audio(f) /\ ~is_video(f)

\* VideoFormat.has_both
has_both(f) == is_video(f) /\ is_audio(f)

\* VideoFormat.is_direct_download
is_direct_download(f) == f.protocol = "https" /\ f.url # "" /\ f.googlevideo

\* is_mp4_format(f) of get_download_urls
is_mp4_format(f) == f.ext \in {"mp4", "m4a"} \/ f.vcodec = "avc1"

\* format_sort_key(f, prefer_mp4): (mp4_score, f.height or 0, f.tbr or 0)
format_sort_key(f, prefer_mp4) ==
    <<IF prefer_mp4 /\ is_mp4_format(f) THEN 1 ELSE 0, f.height, f.tbr>>

\* lambda f: f.tbr or 0
tbr_key(f) == <<f.tbr>>

\* Python's < on tuples of numbers of one length
key_less(k1, k2) ==
    \E i \in 1..Len(k1) :
        /\ \A j \in 1..(i - 1) : k1[j] = k2[j]
        /\ k1[i] < k2[i]

\* variant of max that may return any of the items with the greatest key
any_max(keys) ==
    {i \in 1..Len(keys) : \A j \in 1..Len(keys) : ~key_less(keys[i], keys[j])}

\* Python's max(items, key=...): the position it returns, the first of the
\* items with the greatest key
first_max(keys) ==
    {i \in 1..Len(keys) :
        /\ \A j \in 1..Len(keys) : ~key_less(keys[i], keys[j])
        /\ \A j \in 1..(i - 1) : key_less(keys[j], keys[i])}

\* max(cands, key=lambda f: format_sort_key(f, prefer_mp4))
max_format(cands, prefer_mp4) ==
    {cands[i] : i \in first_max([j \in 1..Len(cands) |->
                                    format_sort_key(cands[j], prefer_mp4)])}

\* max(cands, key=lambda f: f.tbr or 0)
max_tbr(cands) ==
    {cands[i] : i \in first_max([j \in 1..Len(cands) |-> tbr_key(cands[j])])}

\* abs((f.height or 0) - target_height)
height_diff(f, target_height) ==
    IF f.height >= target_height THEN f.height - target_height
    ELSE target_height - f.height

\* the candidates at the least distance from the target, in list order
closest(cands, target_height) ==
    SelectSeq(cands, LAMBDA f :
        \A i \in 1..Len(cands) :
            height_diff(f, target_height) <= height_diff(cands[i], target_height))

\* int(resolution) if resolution != "best" else 9999
target_height(resolution) ==
    CASE resolution = "360" -> 360
      [] resolution = "480" -> 480
      [] resolution = "720" -> 720
      [] resolution = "1080" -> 1080
      [] resolution = "best" -> 9999

\* variant that prefers separate streams from 1080 up only
prefer_separate_from_1080(resolution) ==
    resolution = "best" \/ target_height(resolution) >= 1080

\* prefer_separate = target_height >= 720 or resolution == "best"
prefer_separate(resolution) ==
    resolution = "best" \/ target_height(resolution) >= 720

\* the choice of the video among non-empty candidates: best, else the best
\* of those at or below the target, else the best of the closest
select_video(cands, resolution, prefer_mp4) ==
    LET suitable == SelectSeq(cands, LAMBDA f :
                        f.height # 0 /\ f.height <= target_height(resolution))
    IN  IF resolution = "best" THEN max_format(cands, prefer_mp4)
        ELSE IF suitable # <<>> THEN max_format(suitable, prefer_mp4)
        ELSE max_format(closest(cands, target_height(resolution)), prefer_mp4)

\* the choice of the audio among non-empty candidates: M4A first when
\* prefer_mp4, by bitrate
select_audio(cands, prefer_mp4) ==
    LET m4a_audio == SelectSeq(cands, LAMBDA f : f.ext = "m4a")
    IN  IF prefer_mp4 /\ m4a_audio # <<>> THEN max_tbr(m4a_audio)
        ELSE max_tbr(cands)

\* a rendition that is None
NoFormat == [none |-> TRUE]

\* the result dict, filled from the chosen renditions
url_result(video, audio, needs_merge, resolution) ==
    [video_url |-> IF video = NoFormat THEN "None" ELSE video.url,
     audio_url |-> IF audio = NoFormat THEN "None" ELSE audio.url,
     video_format |-> video,
     audio_format |-> audio,
     needs_merge |-> needs_merge,
     resolution |-> resolution]

\* the audio candidates, or None when there is none
audio_or_none(cands, prefer_mp4) ==
    IF cands = <<>> THEN {NoFormat} ELSE select_audio(cands, prefer_mp4)

\* ExtractedVideo.get_download_urls(resolution, prefer_mp4): the results the
\* call may return for the renditions fmts
get_download_urls(fmts, resolution, prefer_mp4) ==
    LET audio_only == SelectSeq(fmts, LAMBDA f : is_audio_only(f) /\ f.url # "")
        direct_audio == SelectSeq(audio_only, is_direct_download)
        video_only_direct == SelectSeq(fmts, LAMBDA f :
            is_video_only(f) /\ f.url # "" /\ is_direct_download(f) /\ f.height # 0)
        audio_only_direct == SelectSeq(fmts, LAMBDA f :
            is_audio_only(f) /\ f.url # "" /\ is_direct_download(f))
        combined_direct == SelectSeq(fmts, LAMBDA f :
            has_both(f) /\ f.url # "" /\ is_direct_download(f) /\ f.height # 0)
        all_video == SelectSeq(fmts, LAMBDA f :
            is_video(f) /\ f.url # "" /\ f.height # 0)
    IN  IF resolution = "audio"
        THEN {url_result(NoFormat, audio, FALSE, resolution) :
                 audio \in IF direct_audio # <<>>
                           THEN select_audio(direct_audio, prefer_mp4)
                           ELSE IF audio_only # <<>> THEN max_tbr(audio_only)
                           ELSE {NoFormat}}
        ELSE IF prefer_separate(resolution) /\ video_only_direct # <<>>
        THEN {url_result(video, audio, TRUE, resolution) :
                 video \in select_video(video_only_direct, resolution, prefer_mp4),
                 audio \in audio_or_none(audio_only_direct, prefer_mp4)}
        ELSE IF combined_direct # <<>>
        THEN {url_result(best, NoFormat, FALSE, resolution) :
                 best \in select_video(combined_direct, resolution, prefer_mp4)}
        ELSE IF video_only_direct # <<>>
        THEN {url_result(video, audio, TRUE, resolution) :
                 video \in select_video(video_only_direct, resolution, prefer_mp4),
                 audio \in audio_or_none(audio_only_direct, prefer_mp4)}
        ELSE IF all_video # <<>>
        THEN {IF is_video_only(video)
              THEN url_result(video, audio, TRUE, resolution)
              ELSE url_result(video, NoFormat, FALSE, resolution) :
                 video \in select_video(all_video, resolution, prefer_mp4),
                 audio \in audio_or_none(audio_only, prefer_mp4)}
        ELSE {url_result(NoFormat, NoFormat, FALSE, resolution)}

NoUrls == [op |-> "none"]

\* video.get_download_urls(resolution)  (url_extractor.py:738): prefer_mp4
\* keeps its default True
GetDownloadUrls ==
    /\ \E resolution \in Resolutions :
          \E result \in get_download_urls(formats, resolution, TRUE) :
              urls' = [op |-> "get_download_urls", resolution |-> resolution,
                       result |-> result]
    /\ urls_before' = urls
    /\ UNCHANGED formats

InitSelect ==
    /\ formats = <<>>
    /\ urls = NoUrls
    /\ urls_before = NoUrls

-----------------------------------------------------------------------------
(* The download loop of the /extract endpoint (routes.extract_direct_urls) *)

MAX_RETRIES == 3

\* is_bot_error = "Sign in to confirm you're not a bot" in error_msg
\*                or "bot" in error_msg.lower()
endpoint_is_bot_error(error_msg) ==
    \/ Contains(error_msg, MessageText("Sign in to confirm you're not a bot"))
    \/ Contains(Lower(error_msg), <<"b","o","t">>)

\* what agentgo.get_youtube_authentication_bundle does for the request:
\* a bundle, None, or no answer within the 120 s of wait_for
RefreshResults == {"bundle", "None", "TimeoutError"}

\* a request enters the download loop
EpStart ==
    /\ ep_pc \in {"idle", "done"}
    /\ ep_region' \in CacheRegions
    /\ ep_attempt' = 1
    /\ ep_cookie_file_path' = "None"
    /\ ep_cached_first' = "None"
    /\ ep_refreshes' = <<>>
    /\ ep_runs' = <<>>
    /\ ep_outcome' = [kind |-> "none"]
    /\ ep_pc' = "cookies"
    /\ UNCHANGED <<api_key, cookie_cache, cookie_files>>

\* first attempt, cookies of the region are cached: they are used
\* (routes.py:1042-1047)
EpUseCached ==
    /\ ep_pc = "cookies"
    /\ ep_attempt = 1
    /\ get_cached_cookie_for_region(cookie_cache, cookie_files, clock, ep_region) # "None"
    /\ ep_cookie_file_path' =
          get_cached_cookie_for_region(cookie_cache, cookie_files, clock, ep_region)
    /\ ep_cached_first' = ep_cookie_file_path'
    /\ ep_pc' = "run"
    /\ UNCHANGED <<api_key, cookie_cache, cookie_files, ep_attempt, ep_region,
                   ep_refreshes, ep_runs, ep_outcome>>

\* no cached cookies, or a retry: fresh ones are fetched, forced on a retry
\* (routes.py:1047-1059).  A bundle means save_cookies_to_file has run; when
\* wait_for gives up, the cookies may or may not have been saved already.
EpRefresh ==
    /\ ep_pc = "cookies"
    /\ \/ ep_attempt > 1
       \/ get_cached_cookie_for_region(cookie_cache, cookie_files, clock, ep_region) = "None"
    /\ api_key
    /\ \E result \in RefreshResults, saved \in BOOLEAN :
          /\ saved = TRUE => result # "None"
          /\ saved = FALSE => result # "bundle"
          /\ cookie_files' = IF saved
                             THEN cookie_files \cup {get_cookie_file_path(ep_region)}
                             ELSE cookie_files
          /\ cookie_cache' = IF saved
                             THEN cache_put(cookie_cache, ep_region,
                                            get_cookie_file_path(ep_region), clock)
                             ELSE cookie_cache
          /\ ep_cookie_file_path' = IF result = "bundle"
                                    THEN get_cookie_file_path(ep_region)
                                    ELSE "None"
          /\ ep_refreshes' = Append(ep_refreshes,
                [attempt |-> ep_attempt,
                 force_refresh |-> ep_attempt > 1,
                 result |-> result,
                 saved |-> saved,
                 cached_after |-> get_cached_cookie_for_region(
                                     cookie_cache', cookie_files', clock, ep_region)])
    /\ ep_pc' = "run"
    /\ UNCHANGED <<api_key, ep_attempt, ep_region, ep_cached_first, ep_runs,
                   ep_outcome>>

\* no cached cookies and AgentGo has no API key: the run goes without cookies
EpNoCookies ==
    /\ ep_pc = "cookies"
    /\ \/ ep_attempt > 1
       \/ get_cached_cookie_for_region(cookie_cache, cookie_files, clock, ep_region) = "None"
    /\ ~api_key
    /\ ep_cookie_file_path' = "None"
    /\ ep_pc' = "run"
    /\ UNCHANGED <<api_key, cookie_cache, cookie_files, ep_attempt, ep_region,
                   ep_cached_first, ep_refreshes, ep_runs, ep_outcome>>

\* one yt-dlp run of the request, as recorded
EpRun(result, is_bot_error) ==
    [attempt |-> ep_attempt,
     cookies |-> IF ep_cookie_file_path # "None" /\ ep_cookie_file_path \in cookie_files
                 THEN ep_cookie_file_path ELSE "None",
     result |-> result,
     is_bot_error |-> is_bot_error]

\* yt-dlp returns 0: break
EpRunSucceeds ==
    /\ ep_pc = "run"
    /\ ep_runs' = Append(ep_runs, EpRun("ok", FALSE))
    /\ ep_outcome' = [kind |-> "downloaded", attempt |-> ep_attempt]
    /\ ep_pc' = "done"
    /\ UNCHANGED <<api_key, cookie_cache, cookie_files, ep_attempt, ep_region,
                   ep_cookie_file_path, ep_cached_first, ep_refreshes>>

\* yt-dlp fails with a bot-detection message before the last attempt: the
\* cached cookie file is deleted and the loop goes on (routes.py:1107-1118)
EpRunBotDetected ==
    /\ ep_pc = "run"
    /\ ep_attempt < MAX_RETRIES
    /\ \E e \in Messages :
          /\ endpoint_is_bot_error(MessageText(e))
          /\ ep_runs' = Append(ep_runs, EpRun(e, TRUE))
    /\ LET cached_file == get_cached_cookie_for_region(cookie_cache, cookie_files,
                                                       clock, ep_region)
       IN  cookie_files' = IF cached_file # "None" /\ cached_file \in cookie_files
                           THEN cookie_files \ {cached_file}
                           ELSE cookie_files
    /\ ep_attempt' = ep_attempt + 1
    /\ ep_pc' = "cookies"
    /\ UNCHANGED <<api_key, cookie_cache, ep_region, ep_cookie_file_path,
                   ep_cached_first, ep_refreshes, ep_outcome>>

\* yt-dlp fails otherwise: the error is logged, and it is raised only when
\* this was the last attempt (routes.py:1119-1123)
EpRunFails ==
    /\ ep_pc = "run"
    /\ \E e \in Messages :
          /\ ~(endpoint_is_bot_error(MessageText(e)) /\ ep_attempt < MAX_RETRIES)
          /\ ep_runs' = Append(ep_runs, EpRun(e, endpoint_is_bot_error(MessageText(e))))
          /\ IF ep_attempt = MAX_RETRIES
             THEN /\ ep_outcome' = [kind |-> "Exception", attempt |-> ep_attempt]
                  /\ ep_pc' = "done"
                  /\ ep_attempt' = ep_attempt
             ELSE /\ ep_outcome' = ep_outcome
                  /\ ep_pc' = "cookies"
                  /\ ep_attempt' = ep_attempt + 1
    /\ UNCHANGED <<api_key, cookie_cache, cookie_files, ep_region,
                   ep_cookie_file_path, ep_cached_first, ep_refreshes>>

InitEndpoint ==
    /\ ep_pc = "idle"
    /\ ep_attempt = 1
    /\ ep_region = "us"
    /\ ep_cookie_file_path = "None"
    /\ ep_cached_first = "None"
    /\ ep_refreshes = <<>>
    /\ ep_runs = <<>>
    /\ ep_outcome = [kind |-> "none"]

-----------------------------------------------------------------------------
(* TokenExtractor.extract_tokens_with_timeout (agentgo_service.py) *)

\* what one page.goto of the pre-navigation does
GotoResults == {"ok", "Exception"}

\* how the wait for _extract_visitor_data_js_only(page) ends: a value, None,
\* the 15 s deadline of wait_for, or an exception
VisitorResults == {"CgtWaXNpdG9y", "None", "TimeoutError", "Exception"}

\* what extract_po_token(page) returns on the page: a token or None
PoTokenResults == {"MnQtest_po_token", "None"}

\* TokenExtractionResult
TokenExtractionResult(success, po_token, visitor_data, error_message, method) ==
    [success |-> success, po_token |-> po_token, visitor_data |-> visitor_data,
     error_message |-> error_message, extraction_method |-> method]

\* extract_tokens_with_timeout(page, ...): on_youtube is
\* "youtube.com" in page.url, gotos the results of the three navigation
\* strategies, visitor the end of the visitor-data step
extract_tokens_with_timeout(on_youtube, gotos, visitor) ==
    LET navigation_success == \E i \in 1..Len(gotos) : gotos[i] = "ok"
        visitor_data == IF visitor \in {"TimeoutError", "Exception"}
                        THEN "None" ELSE visitor
        success == visitor_data # "None"
    IN  IF ~on_youtube /\ ~navigation_success
        THEN TokenExtractionResult(FALSE, "None", "None",
                                   "Failed to navigate to YouTube", "combined")
        ELSE TokenExtractionResult(success, "None", visitor_data,
                                   IF success THEN "None"
                                   ELSE "No visitor data extracted",
                                   "visitor_data_only")

NoTokenCall == [op |-> "none"]

\* one call on a page: where the page is, what its navigations do, and
\* what the extraction steps find on it
ExtractTokensWithTimeout ==
    \E on_youtube \in BOOLEAN, gotos \in [1..3 -> GotoResults],
       visitor \in VisitorResults, po \in PoTokenResults :
        token_call' = [op |-> "extract_tokens_with_timeout",
                       on_youtube |-> on_youtube,
                       gotos |-> gotos,
                       extract_visitor_data |-> visitor,
                       extract_po_token |-> po,
                       result |-> extract_tokens_with_timeout(on_youtube, gotos,
                                                              visitor)]

InitTokens ==
    token_call = NoTokenCall

-----------------------------------------------------------------------------
(* POST /process and process_video_task (routes.py) *)

TaskIds == 1..MaxTasks

\* no TaskData object with this id has been created
NoTask == [status |-> "none"]

\* the steps of process_video_task that are awaited
TaskSteps == {"downloading", "extracting_audio", "uploading", "transcribing"}

\* variant of the except clauses that puts a task whose transcription
\* failed back into the upload state
failure_status_reupload(status) ==
    IF status = "transcribing" THEN "uploading" ELSE "failed"

\* the except clauses of process_video_task: task.status = TaskStatus.FAILED
failure_status(status) == "failed"

\* task.status = status; task.progress = progress, with the history of the
\* statuses the task has had
set_status(task, status, progress, at) ==
    [task EXCEPT !.status = status, !.progress = progress, !.at = at,
                 !.trace = Append(task.trace, status)]

\* POST /process: a TaskData is created PENDING, stored, and its run is
\* scheduled as a background task
ProcessVideo ==
    /\ \E t \in TaskIds, enable_transcription \in BOOLEAN :
          /\ tasks[t] = NoTask
          /\ tasks' = [tasks EXCEPT ![t] =
                [status |-> "pending", progress |-> 0,
                 enable_transcription |-> enable_transcription,
                 stored |-> TRUE, at |-> "queued", error |-> "None",
                 trace |-> <<"pending">>]]
    /\ UNCHANGED qwen_api_key

\* DELETE /tasks/{task_id}: del tasks[task_id]; a run that has fetched the
\* object keeps working on it
DeleteTask ==
    /\ \E t \in TaskIds :
          /\ tasks[t] # NoTask
          /\ tasks[t].stored
          /\ tasks' = [tasks EXCEPT ![t].stored = FALSE]
    /\ UNCHANGED qwen_api_key

\* process_video_task starts and does not find the task: it returns
TaskNotFound ==
    /\ \E t \in TaskIds :
          /\ tasks[t] # NoTask
          /\ tasks[t].at = "queued"
          /\ ~tasks[t].stored
          /\ tasks' = [tasks EXCEPT ![t].at = "returned"]
    /\ UNCHANGED qwen_api_key

\* process_video_task starts: DOWNLOADING, then the prefetch and the download
\* are awaited
TaskBegin ==
    /\ \E t \in TaskIds :
          /\ tasks[t] # NoTask
          /\ tasks[t].at = "queued"
          /\ tasks[t].stored
          /\ tasks' = [tasks EXCEPT ![t] =
                          set_status(tasks[t], "downloading", 10, "downloading")]
    /\ UNCHANGED qwen_api_key

\* the download returns: EXTRACTING_AUDIO, extract_audio is awaited
TaskDownloaded ==
    /\ \E t \in TaskIds :
          /\ tasks[t] # NoTask
          /\ tasks[t].at = "downloading"
          /\ tasks' = [tasks EXCEPT ![t] =
                set_status(tasks[t], "extracting_audio", 40, "extracting_audio")]
    /\ UNCHANGED qwen_api_key

\* extract_audio returns: UPLOADING, the two uploads are awaited
TaskAudioExtracted ==
    /\ \E t \in TaskIds :
          /\ tasks[t] # NoTask
          /\ tasks[t].at = "extracting_audio"
          /\ tasks' = [tasks EXCEPT ![t] =
                          set_status(tasks[t], "uploading", 60, "uploading")]
    /\ UNCHANGED qwen_api_key

\* the uploads return: TRANSCRIBING when transcription is enabled and
\* configured, else COMPLETED
TaskUploaded ==
    /\ \E t \in TaskIds :
          /\ tasks[t] # NoTask
          /\ tasks[t].at = "uploading"
          /\ tasks' = [tasks EXCEPT ![t] =
                IF tasks[t].enable_transcription /\ qwen_api_key
                THEN set_status(tasks[t], "transcribing", 80, "transcribing")
                ELSE set_status(tasks[t], "completed", 100, "returned")]
    /\ UNCHANGED qwen_api_key

\* transcribe_from_url returns, with segments or without: COMPLETED
TaskTranscribed ==
    /\ \E t \in TaskIds :
          /\ tasks[t] # NoTask
          /\ tasks[t].at = "transcribing"
          /\ tasks' = [tasks EXCEPT ![t] =
                          set_status(tasks[t], "completed", 100, "returned")]
    /\ UNCHANGED qwen_api_key

\* an awaited step raises DownloadError or another exception: FAILED
TaskFails ==
    /\ \E t \in TaskIds, error \in {"DownloadError", "Exception"} :
          /\ tasks[t] # NoTask
          /\ tasks[t].at \in TaskSteps
          /\ error = "DownloadError" => tasks[t].at = "downloading"
          /\ tasks' = [tasks EXCEPT ![t] =
                [set_status(tasks[t], failure_status(tasks[t].status),
                            tasks[t].progress, "returned")
                   EXCEPT !.error = error]]
    /\ UNCHANGED qwen_api_key

InitTasks ==
    /\ tasks = [t \in TaskIds |-> NoTask]
    /\ qwen_api_key = FALSE

-----------------------------------------------------------------------------
(* Concurrent AgentGoService.get_youtube_authentication_bundle calls *)

Callers == 1..MaxCallers

\* proxy_vars  (agentgo_service.py:1825-1832)
proxy_vars ==
    {"https_proxy", "http_proxy", "all_proxy", "HTTPS_PROXY", "HTTP_PROXY", "ALL_PROXY"}

\* the proxy variables the process may have been started with
Environments == {{}, {"https_proxy", "http_proxy"}, proxy_vars}

\* a caller that is not inside the function
NotRefreshing ==
    [at |-> "idle", region |-> "None", original_env |-> {}, result |-> NoBundle]

\* AuthenticationBundle(...) of a browser session (agentgo_service.py:1994-2006):
\* session names the browser session the cookies and the tokens are from;
\* po_token is token_result.po_token, None
SessionBundle(session, visitor_found, reg, now) ==
    [cookies |-> session,
     po_token |-> "None",
     visitor_data |-> IF visitor_found THEN session ELSE 0,
     region |-> reg,
     extraction_timestamp |-> now,
     cookie_file_path |-> get_cookie_file_path(reg),
     from_cache |-> FALSE]

\* AuthenticationBundle(...) built from the cached cookie file
\* (agentgo_service.py:2095-2102): cookies = [], no tokens
CookieFileBundle(reg, cookie_file_path, now) ==
    [cookies |-> 0,
     po_token |-> "None",
     visitor_data |-> 0,
     region |-> reg,
     extraction_timestamp |-> now,
     cookie_file_path |-> cookie_file_path,
     from_cache |-> TRUE]

\* the call starts and AgentGo has no API key: None
RefreshNotConfigured ==
    /\ ~api_key
    /\ \E c \in Callers, reg \in CacheRegions, force_refresh \in BOOLEAN :
          /\ refresh[c].at = "idle"
          /\ returned' = returned \cup {[bundle |-> NoBundle, stored |-> stored[reg]]}
    /\ Cardinality(returned) < MaxReturned
    /\ UNCHANGED <<api_key, clock, cookie_cache, cookie_files, environ, refresh,
                   jar, minted, stored>>

\* the call starts, not forced, and the cookies of the region are cached:
\* a cookies-only bundle is built from the cached file and returned
RefreshFromCache ==
    /\ api_key
    /\ \E c \in Callers, reg \in CacheRegions :
          /\ refresh[c].at = "idle"
          /\ get_cached_cookie_for_region(cookie_cache, cookie_files, clock, reg) # "None"
          /\ LET bundle == CookieFileBundle(reg,
                              get_cached_cookie_for_region(cookie_cache, cookie_files,
                                                           clock, reg), clock)
             IN  returned' = returned \cup {[bundle |-> bundle, stored |-> stored[reg]]}
    /\ Cardinality(returned) < MaxReturned
    /\ UNCHANGED refresh
    /\ UNCHANGED <<api_key, clock, cookie_cache, cookie_files, environ, jar,
                   minted, stored>>

\* the call starts, forced or without cached cookies: the proxy variables
\* are removed from os.environ and kept in original_env, and the browser
\* session is entered (agentgo_service.py:1810-1839)
RefreshBegin ==
    /\ api_key
    /\ Cardinality(returned) + Cardinality({c \in Callers : refresh[c].at # "idle"})
          < MaxReturned
    /\ \E c \in Callers, reg \in CacheRegions, force_refresh \in BOOLEAN :
          /\ refresh[c].at = "idle"
          /\ \/ force_refresh
             \/ get_cached_cookie_for_region(cookie_cache, cookie_files, clock, reg) = "None"
          /\ refresh' = [refresh EXCEPT ![c] =
                [at |-> "session", region |-> reg,
                 original_env |-> environ \cap proxy_vars, result |-> NoBundle]]
    /\ environ' = environ \ proxy_vars
    /\ UNCHANGED <<api_key, clock, cookie_cache, cookie_files, jar, minted,
                   stored, returned>>

\* the session delivers cookies: save_cookies_to_file writes the region's
\* file and the cache entry, the bundle is built, and the browser is being
\* closed (agentgo_service.py:1988-2032, 2049-2052)
RefreshExtract ==
    /\ minted < MaxSessions
    /\ \E c \in Callers, visitor_found \in BOOLEAN :
          /\ refresh[c].at = "session"
          /\ LET reg == refresh[c].region
                 bundle == SessionBundle(minted + 1, visitor_found, reg, clock)
             IN  /\ jar' = [jar EXCEPT ![get_cookie_file_path(reg)] = minted + 1]
                 /\ cookie_files' = cookie_files \cup {get_cookie_file_path(reg)}
                 /\ cookie_cache' = cache_put(cookie_cache, reg,
                                              get_cookie_file_path(reg), clock)
                 /\ stored' = [stored EXCEPT ![reg] = bundle]
                 /\ refresh' = [refresh EXCEPT ![c].at = "closing",
                                               ![c].result = bundle]
    /\ minted' = minted + 1
    /\ UNCHANGED <<api_key, clock, environ, returned>>

\* the session fails (connection, no cookies, any exception): AgentGoError
\* is on its way out through the finally clauses
RefreshSessionFails ==
    /\ \E c \in Callers :
          /\ refresh[c].at = "session"
          /\ refresh' = [refresh EXCEPT ![c].at = "closing"]
    /\ UNCHANGED <<api_key, clock, cookie_cache, cookie_files, environ, jar,
                   minted, stored, returned>>

\* the browser is closed: the variables of original_env are put back and
\* the call returns its bundle, or None (agentgo_service.py:2060-2073)
RefreshEnd ==
    /\ \E c \in Callers :
          /\ refresh[c].at = "closing"
          /\ environ' = environ \cup refresh[c].original_env
          /\ refresh' = [refresh EXCEPT ![c] = NotRefreshing]
          /\ returned' = returned \cup {[bundle |-> refresh[c].result,
                                        stored |-> stored[refresh[c].region]]}
    /\ UNCHANGED <<api_key, clock, cookie_cache, cookie_files, jar, minted,
                   stored>>

InitRefresh ==
    /\ environ = {}
    /\ refresh = [c \in Callers |-> NotRefreshing]
    /\ jar = [f \in {get_cookie_file_path(reg) : reg \in CacheRegions} |-> 0]
    /\ minted = 0
    /\ stored = [reg \in CacheRegions |-> NoBundle]
    /\ returned = {}

-----------------------------------------------------------------------------
(* One download() call and its attempts in flight (downloader.py:713-756,
   842-855, 915-960), with other calls acting on the shared rotator *)

\* variant that schedules the attempt and goes on without awaiting it
suspended_never(waiting) == FALSE

\* result = await self._download_with_strategy(...), which awaits
\* loop.run_in_executor(None, do_download): the coroutine does not run again
\* before the attempt has settled
suspended(waiting) == waiting

\* the attempt the loop or the retry loop is at
CurrentAttempt ==
    [phase |-> pc, idx |-> proxy_idx,
     strategy |-> IF pc = "loop" THEN Strategies[strategy_pos]
                  ELSE RetryStrategies[strategy_pos]]

\* _download_with_strategy is called: do_download starts in the executor
AttemptStart ==
    /\ pc \in {"loop", "retry"}
    /\ ~suspended(awaiting)
    /\ awaiting' = TRUE
    /\ in_flight' = in_flight + 1
    /\ starts' = Append(starts, CurrentAttempt)
    /\ UNCHANGED <<rotator_vars, service_vars, call_vars, interfered>>

\* the executor thread of the pending attempt ends and the await returns or
\* raises
Settled ==
    /\ awaiting
    /\ awaiting' = FALSE
    /\ in_flight' = in_flight - 1
    /\ UNCHANGED <<starts, interfered>>

\* asyncio.wait_for cancels download() at its await; the executor thread of
\* the pending attempt is not stopped
Abandoned ==
    /\ awaiting
    /\ awaiting' = FALSE
    /\ UNCHANGED <<in_flight, starts, interfered>>

\* the thread of an abandoned attempt ends after the call is over
ThreadEnds ==
    /\ pc = "raised"
    /\ in_flight > 0
    /\ in_flight' = in_flight - 1
    /\ UNCHANGED <<rotator_vars, service_vars, call_vars, awaiting, starts,
                   interfered>>

\* a step of the call between two attempts
BetweenAttempts ==
    /\ ~awaiting
    /\ UNCHANGED flight_vars

\* a new YouTubeDownloader and a new download() call
FlightReset ==
    /\ awaiting' = FALSE
    /\ in_flight' = 0
    /\ starts' = <<>>
    /\ interfered' = FALSE

\* another download() call on the same event loop marks a proxy of the
\* shared rotator while this call is under way
OtherCallMarks ==
    /\ pc \in {"loop", "retry"}
    /\ MarkFailed \/ MarkSuccess
    /\ interfered' = TRUE
    /\ UNCHANGED <<service_vars, call_vars, awaiting, in_flight, starts>>

InitFlight ==
    /\ awaiting = FALSE
    /\ in_flight = 0
    /\ starts = <<>>
    /\ interfered = FALSE

-----------------------------------------------------------------------------
(* Specifications *)

InitOther ==
    /\ InitClassify
    /\ InitEndpoint
    /\ InitTokens
    /\ InitTasks
    /\ InitRefresh
    /\ InitFlight


InitService ==
    /\ api_key \in BOOLEAN
    /\ credentials \in BOOLEAN
    /\ region_cookies_cache = {}

InitCall ==
    /\ pc = "idle"
    /\ entry = "download"
    /\ use_rotation = TRUE
    /\ current_proxy = NoProxy
    /\ region = "None"
    /\ auth_bundle = NoBundle
    /\ script = <<>>
    /\ proxies_to_try = <<>>
    /\ proxy_idx = 1
    /\ strategy_pos = 1
    /\ errors = <<>>
    /\ attempts = <<>>
    /\ refresh_calls = 0
    /\ escalations = 0
    /\ failed_at_build = {}
    /\ outcome = [kind |-> "none"]

\* The rotator under arbitrary callers
InitR ==
    /\ InitRotator
    /\ api_key = FALSE /\ credentials = FALSE /\ region_cookies_cache = {}
    /\ InitCall
    /\ InitCache
    /\ InitSelect
    /\ InitOther

NextR ==
    \/ GetRandom /\ UNCHANGED <<service_vars, call_vars, cache_vars, select_vars, other_vars>>
    \/ GetNext /\ UNCHANGED <<service_vars, call_vars, cache_vars, select_vars, other_vars>>
    \/ MarkFailed /\ UNCHANGED <<service_vars, call_vars, cache_vars, select_vars, other_vars>>
    \/ MarkSuccess /\ UNCHANGED <<service_vars, call_vars, cache_vars, select_vars, other_vars>>

SpecRotator == InitR /\ [][NextR]_vars

\* Resolve calls one after another, sharing the rotator and the service
Init ==
    /\ InitRotator
    /\ InitService
    /\ InitCall
    /\ InitCache
    /\ InitSelect
    /\ InitOther

Next ==
    \/ StartDownload /\ UNCHANGED <<cache_vars, select_vars, other_vars>>
    \/ StartQuick /\ UNCHANGED <<cache_vars, select_vars, other_vars>>
    \/ Prefetch /\ UNCHANGED <<cache_vars, select_vars, other_vars>>
    \/ PrefetchTimeout /\ UNCHANGED <<cache_vars, select_vars, other_vars>>
    \/ DownloadBegin /\ UNCHANGED <<cache_vars, select_vars, other_vars>>
    \/ AttemptSucceeds /\ UNCHANGED <<cache_vars, select_vars, other_vars>>
    \/ AttemptFails /\ UNCHANGED <<cache_vars, select_vars, other_vars>>
    \/ LoopFailed /\ UNCHANGED <<cache_vars, select_vars, other_vars>>
    \/ Escalate /\ UNCHANGED <<cache_vars, select_vars, other_vars>>
    \/ EscalateTimeout /\ UNCHANGED <<cache_vars, select_vars, other_vars>>
    \/ RetrySucceeds /\ UNCHANGED <<cache_vars, select_vars, other_vars>>
    \/ RetryFails /\ UNCHANGED <<cache_vars, select_vars, other_vars>>
    \/ Timeout /\ UNCHANGED <<cache_vars, select_vars, other_vars>>

Spec == Init /\ [][Next]_vars

\* Calls of extract_youtube_urls one after another
NextX ==
    \/ StartExtract /\ UNCHANGED <<cache_vars, select_vars, other_vars>>
    \/ ExtractPrefetch /\ UNCHANGED <<cache_vars, select_vars, other_vars>>
    \/ ExtractPrefetchTimeout /\ UNCHANGED <<cache_vars, select_vars, other_vars>>
    \/ ExtractSucceeds /\ UNCHANGED <<cache_vars, select_vars, other_vars>>
    \/ ExtractFails /\ UNCHANGED <<cache_vars, select_vars, other_vars>>
    \/ ExtractTimeout /\ UNCHANGED <<cache_vars, select_vars, other_vars>>

SpecExtract == Init /\ [][NextX]_vars

\* One extracted video and the selections made on it
InitS ==
    /\ proxies = <<>> /\ current_index = 0 /\ failed_proxies = {}
    /\ selected = NoSelection
    /\ api_key = FALSE /\ credentials = FALSE /\ region_cookies_cache = {}
    /\ InitCall
    /\ InitCache
    /\ formats \in FormatLists
    /\ urls = NoUrls
    /\ urls_before = NoUrls
    /\ InitOther

NextS ==
    \/ GetDownloadUrls /\ UNCHANGED <<rotator_vars, service_vars, call_vars, cache_vars, other_vars>>

SpecSelect == InitS /\ [][NextS]_vars

\* The cookie cache under arbitrary callers, as time passes
InitC ==
    /\ InitRotator
    /\ api_key = FALSE /\ credentials = FALSE /\ region_cookies_cache = {}
    /\ InitCall
    /\ InitCache
    /\ InitSelect
    /\ InitOther

NextC ==
    \/ SaveCookiesToFile /\ UNCHANGED <<rotator_vars, service_vars, call_vars, select_vars, other_vars>>
    \/ GetCachedCookieForRegion /\ UNCHANGED <<rotator_vars, service_vars, call_vars, select_vars, other_vars>>
    \/ InvalidateRegionCache /\ UNCHANGED <<rotator_vars, service_vars, call_vars, select_vars, other_vars>>
    \/ RemoveCookieFile /\ UNCHANGED <<rotator_vars, service_vars, call_vars, select_vars, other_vars>>
    \/ Tick /\ UNCHANGED <<rotator_vars, service_vars, call_vars, select_vars, other_vars>>

SpecCache == InitC /\ [][NextC]_vars

\* The two classifiers applied to messages
InitB ==
    /\ proxies = <<>> /\ current_index = 0 /\ failed_proxies = {}
    /\ selected = NoSelection
    /\ api_key = FALSE /\ credentials = FALSE /\ region_cookies_cache = {}
    /\ InitCall
    /\ InitCache
    /\ InitSelect
    /\ InitOther

NextB ==
    \/ Classify /\ UNCHANGED <<rotator_vars, service_vars, call_vars, cache_vars, select_vars, endpoint_vars, token_vars, task_vars, refresh_vars, flight_vars>>

SpecClassify == InitB /\ [][NextB]_vars

\* the variables a request of the /extract endpoint leaves alone
endpoint_unchanged ==
    <<rotator_vars, credentials, region_cookies_cache, call_vars, clock, ticks,
      cached_read, select_vars, classify_vars, token_vars, task_vars,
      refresh_vars, flight_vars>>

\* Requests of the /extract endpoint one after another
NextE ==
    \/ EpStart /\ UNCHANGED endpoint_unchanged
    \/ EpUseCached /\ UNCHANGED endpoint_unchanged
    \/ EpRefresh /\ UNCHANGED endpoint_unchanged
    \/ EpNoCookies /\ UNCHANGED endpoint_unchanged
    \/ EpRunSucceeds /\ UNCHANGED endpoint_unchanged
    \/ EpRunBotDetected /\ UNCHANGED endpoint_unchanged
    \/ EpRunFails /\ UNCHANGED endpoint_unchanged

InitE ==
    /\ proxies = <<>> /\ current_index = 0 /\ failed_proxies = {}
    /\ selected = NoSelection
    /\ api_key \in BOOLEAN
    /\ credentials = FALSE /\ region_cookies_cache = {}
    /\ InitCall
    /\ InitCache
    /\ InitSelect
    /\ InitOther

SpecEndpoint == InitE /\ [][NextE]_vars

\* Token extraction calls on pages
NextT ==
    \/ ExtractTokensWithTimeout /\ UNCHANGED <<rotator_vars, service_vars, call_vars, cache_vars, select_vars, classify_vars, endpoint_vars, task_vars, refresh_vars, flight_vars>>

SpecTokens == InitB /\ [][NextT]_vars

\* the variables the tasks leave alone
task_unchanged ==
    <<rotator_vars, service_vars, call_vars, cache_vars, select_vars,
      classify_vars, endpoint_vars, token_vars, refresh_vars, flight_vars>>

\* Tasks submitted to /process and run in the background, interleaved
InitP ==
    /\ proxies = <<>> /\ current_index = 0 /\ failed_proxies = {}
    /\ selected = NoSelection
    /\ api_key = FALSE /\ credentials = FALSE /\ region_cookies_cache = {}
    /\ InitCall
    /\ InitCache
    /\ InitSelect
    /\ InitClassify
    /\ InitEndpoint
    /\ InitTokens
    /\ InitRefresh
    /\ InitFlight
    /\ tasks = [t \in TaskIds |-> NoTask]
    /\ qwen_api_key \in BOOLEAN

NextP ==
    \/ ProcessVideo /\ UNCHANGED task_unchanged
    \/ DeleteTask /\ UNCHANGED task_unchanged
    \/ TaskNotFound /\ UNCHANGED task_unchanged
    \/ TaskBegin /\ UNCHANGED task_unchanged
    \/ TaskDownloaded /\ UNCHANGED task_unchanged
    \/ TaskAudioExtracted /\ UNCHANGED task_unchanged
    \/ TaskUploaded /\ UNCHANGED task_unchanged
    \/ TaskTranscribed /\ UNCHANGED task_unchanged
    \/ TaskFails /\ UNCHANGED task_unchanged

SpecTasks == InitP /\ [][NextP]_vars

\* the variables the refresh calls leave alone
refresh_unchanged ==
    <<rotator_vars, credentials, region_cookies_cache, call_vars, ticks,
      cached_read, select_vars, classify_vars, endpoint_vars, token_vars,
      task_vars, flight_vars>>

\* Refresh calls of several callers, interleaved at their awaits, within the
\* lifetime of the cached cookies
InitF ==
    /\ proxies = <<>> /\ current_index = 0 /\ failed_proxies = {}
    /\ selected = NoSelection
    /\ api_key \in BOOLEAN
    /\ credentials = FALSE /\ region_cookies_cache = {}
    /\ InitCall
    /\ InitCache
    /\ InitSelect
    /\ InitClassify
    /\ InitEndpoint
    /\ InitTokens
    /\ InitTasks
    /\ InitFlight
    /\ environ \in Environments
    /\ refresh = [c \in Callers |-> NotRefreshing]
    /\ jar = [f \in {get_cookie_file_path(reg) : reg \in CacheRegions} |-> 0]
    /\ minted = 0
    /\ stored = [reg \in CacheRegions |-> NoBundle]
    /\ returned = {}

NextF ==
    \/ RefreshNotConfigured /\ UNCHANGED refresh_unchanged
    \/ RefreshFromCache /\ UNCHANGED refresh_unchanged
    \/ RefreshBegin /\ UNCHANGED refresh_unchanged
    \/ RefreshExtract /\ UNCHANGED refresh_unchanged
    \/ RefreshSessionFails /\ UNCHANGED refresh_unchanged
    \/ RefreshEnd /\ UNCHANGED refresh_unchanged

SpecRefresh == InitF /\ [][NextF]_vars

\* One download() call at a time followed attempt by attempt, other calls
\* marking proxies of the shared rotator in between
flight_unchanged ==
    <<cache_vars, select_vars, classify_vars, endpoint_vars, token_vars,
      task_vars, refresh_vars>>

\* a pool of two addresses and a configured AgentGo service
InitA ==
    /\ proxies \in {pool \in ProxyPools : Len(pool) = 2}
    /\ current_index = 0 /\ failed_proxies = {}
    /\ selected = NoSelection
    /\ api_key = TRUE /\ credentials = TRUE /\ region_cookies_cache = {}
    /\ InitCall
    /\ InitCache
    /\ InitSelect
    /\ InitOther

NextA ==
    \/ StartDownload /\ FlightReset /\ UNCHANGED flight_unchanged
    \/ StartQuick /\ FlightReset /\ UNCHANGED flight_unchanged
    \/ Prefetch /\ BetweenAttempts /\ UNCHANGED flight_unchanged
    \/ DownloadBegin /\ BetweenAttempts /\ UNCHANGED flight_unchanged
    \/ AttemptStart /\ UNCHANGED flight_unchanged
    \/ AttemptSucceeds /\ Settled /\ UNCHANGED flight_unchanged
    \/ AttemptFails /\ Settled /\ UNCHANGED flight_unchanged
    \/ LoopFailed /\ BetweenAttempts /\ UNCHANGED flight_unchanged
    \/ Escalate /\ BetweenAttempts /\ UNCHANGED flight_unchanged
    \/ RetrySucceeds /\ Settled /\ UNCHANGED flight_unchanged
    \/ RetryFails /\ Settled /\ UNCHANGED flight_unchanged
    \/ Timeout /\ Abandoned /\ UNCHANGED flight_unchanged
    \/ ThreadEnds /\ UNCHANGED flight_unchanged
    \/ OtherCallMarks /\ UNCHANGED flight_unchanged

SpecFlight == InitA /\ [][NextA]_vars

-----------------------------------------------------------------------------
(* Properties *)

\* the call is over, its loop ran to the end, and every attempt of the loop
\* failed with a message is_bot_detection_error accepts
AllAttemptsBotDetected ==
    /\ pc \in {"returned", "raised"}
    /\ outcome.kind = "result" => outcome.phase = "retry"
    /\ outcome.kind = "DownloadError" => outcome.after_loop
    /\ \A i \in 1..Len(errors) : errors[i] \in BotDetectionErrors

\* C1, as stated: in a resolve call whose attempts all fail with bot
\* detection, get_youtube_authentication_bundle is called exactly once
C1_Original == AllAttemptsBotDetected => refresh_calls = 1

\* C1: the escalation calls get_youtube_authentication_bundle at most once
\* per resolve call; when every attempt of the loop fails with bot detection
\* it calls it exactly once if AgentGo is configured (API key and YouTube
\* credentials) and never otherwise; the prefetch of download_youtube_video
\* adds at most two calls, and download() alone adds none
C1_Amended ==
    /\ escalations <= 1
    /\ refresh_calls >= escalations
    /\ refresh_calls - escalations <= 2
    /\ entry = "download" => refresh_calls = escalations
    /\ AllAttemptsBotDetected =>
          escalations = IF api_key /\ credentials THEN 1 ELSE 0

C1_Witness ==
    /\ AllAttemptsBotDetected
    /\ escalations = 1
    /\ refresh_calls = 3

\* C2, as stated: get_random and get_next never return a proxy that is in the
\* failed set, unless every proxy of the pool is in it at the selection
C2_Original ==
    (selected.op \in {"get_random", "get_next"}
     /\ selected.result \in selected.failed_before)
    => Range(proxies) \subseteq selected.failed_before

\* C3: when every proxy of a non-empty pool is in the failed set, the next
\* selection returns a proxy of the pool, not None
C3_SelectionAfterAllFailed ==
    (selected.op \in {"get_random", "get_next"}
     /\ proxies # <<>>
     /\ selected.failed_before = Range(proxies))
    => (selected.result # NoProxy /\ selected.result \in Range(proxies))

C3_Witness ==
    /\ selected.op = "get_random"
    /\ Len(proxies) >= 2
    /\ selected.failed_before = Range(proxies)
    /\ failed_proxies = {}

\* C4, as stated: a proxy that is in the failed set when the proxy list of a
\* rotating download call is built is not attempted in that call, unless
\* every proxy of the pool is failed
C4_Original ==
    use_rotation =>
        \A i \in 1..Len(attempts) :
            attempts[i].proxy \in failed_at_build
            => Range(proxies) \subseteq failed_at_build

\* the messages that name 403, blocked or captcha
HardBlockMessages ==
    {e \in Messages :
        \/ Contains(Lower(MessageText(e)), <<"4","0","3">>)
        \/ Contains(Lower(MessageText(e)), <<"b","l","o","c","k","e","d">>)
        \/ Contains(Lower(MessageText(e)), <<"c","a","p","t","c","h","a">>)}

C6_Original ==
    (use_rotation /\ Len(proxies) = 3 /\ Len(attempts) >= 1
     /\ attempts[1].result = "429 too many requests")
    => /\ attempts[1].proxy \in failed_proxies
       /\ Len(attempts) >= 2 =>
             (attempts[2].idx = 2 /\ attempts[2].proxy = proxies_to_try[2])

\* C7, as stated: when a download call returns a result obtained through
\* proxy p, in the loop or in the retry after an escalation, p is not in the
\* failed set
C7_Original ==
    (pc = "returned" /\ rotator_truthy /\ outcome.proxy # NoProxy)
    => outcome.proxy \notin failed_proxies

\* every attempt of the loop failed with "Sign in to confirm you're not a
\* bot", the escalation brought a bundle with tokens, and a retry with a
\* strategy whose client list includes web succeeded
BotDetectedThenRetrySucceeded ==
    /\ escalations >= 1
    /\ auth_bundle # NoBundle
    /\ auth_bundle.fresh
    /\ auth_bundle.po_token # "None" \/ auth_bundle.visitor_data # "None"
    /\ \A i \in 1..Len(attempts) :
          attempts[i].phase = "loop"
          => attempts[i].result = "Sign in to confirm you're not a bot"
    /\ \E i \in 1..Len(attempts) :
          /\ attempts[i].phase = "retry"
          /\ attempts[i].result = "ok"
          /\ "web" \in Range(attempts[i].config.player_client)

\* C8: when every attempt fails with "confirm you're not a bot", the refresh
\* returns a bundle with tokens and a retry with a token-eligible strategy
\* succeeds, the call returns a result after exactly one escalation
C8_EscalationSuccess ==
    BotDetectedThenRetrySucceeded
    => /\ pc = "returned"
       /\ outcome.kind = "result"
       /\ outcome.phase = "retry"
       /\ escalations = 1

C8_Witness ==
    /\ BotDetectedThenRetrySucceeded
    /\ pc = "returned"
    /\ Len(proxies_to_try) >= 2

\* C9: every retry attempt after an escalation uses a strategy whose client
\* list includes web, and the tokens of the bundle, if it has any, are in
\* the extractor configuration of the attempt
C9_RetryTokenEligible ==
    \A i \in 1..Len(attempts) :
        LET a == attempts[i]
        IN  a.phase = "retry"
            => /\ "web" \in Range(a.config.player_client)
               /\ a.bundle
               /\ a.tokens => (a.config.po_token # "None"
                               \/ a.config.visitor_data # "None")

C9_Witness ==
    \E i \in 1..Len(attempts) :
        /\ attempts[i].phase = "retry"
        /\ attempts[i].strategy = 3
        /\ attempts[i].tokens
        /\ attempts[i].config.po_token = "web+tok"

C11_Original ==
    (cached_read.op = "read" /\ cached_read.cached /\ cached_read.file_exists)
    => /\ cached_read.at < cached_read.timestamp + COOKIE_EXPIRY
          => cached_read.result = get_cookie_file_path(cached_read.region)
       /\ cached_read.at >= cached_read.timestamp + COOKIE_EXPIRY
          => cached_read.result = "None"

\* the call is over, not by its deadline, and every attempt it made, in the
\* loop and in the retry after the escalation, failed
EveryAttemptFailed ==
    /\ pc \in {"returned", "raised"}
    /\ pc = "raised" => ~outcome.timed_out
    /\ Len(attempts) > 0
    /\ \A i \in 1..Len(attempts) : attempts[i].result # "ok"

\* C12: when every proxy x strategy attempt and the escalation have failed,
\* download raises DownloadError, and the error carries the last 3 of the
\* accumulated error messages (all of them when there are fewer), in order
C12_BoundedErrorTail ==
    EveryAttemptFailed
    => /\ pc = "raised"
       /\ outcome.kind = "DownloadError"
       /\ Len(outcome.last_errors) = (IF Len(errors) < 3 THEN Len(errors) ELSE 3)
       /\ \A k \in 1..Len(outcome.last_errors) :
             outcome.last_errors[k] =
                errors[Len(errors) - Len(outcome.last_errors) + k]

C12_Witness ==
    /\ EveryAttemptFailed
    /\ escalations = 1
    /\ Len(errors) >= 8
    /\ \E i \in 1..Len(attempts) : attempts[i].phase = "retry"
    /\ Len(outcome.last_errors) = 3

\* C13, as stated: a resolve call ends only by returning a result or by
\* raising its typed acquisition error, DownloadError or ExtractionError;
\* the outer deadline never reaches the caller as another exception
C13_Original ==
    pc \in {"returned", "raised"}
    => outcome.kind \in {"result", "DownloadError", "ExtractionError"}

\* C14, as stated: a selection result with needs_merge = true carries both
\* a video URL and an audio URL
C14_Original ==
    (urls.op = "get_download_urls" /\ urls.result.needs_merge)
    => (urls.result.video_url # "None" /\ urls.result.audio_url # "None")

\* C15, as stated: when there are renditions and none has a URL, the
\* selection does not return a result whose video and audio are both null
C15_Original ==
    (urls.op = "get_download_urls"
     /\ Len(formats) >= 1
     /\ \A i \in 1..Len(formats) : formats[i].url = "")
    => ~(urls.result.video_url = "None" /\ urls.result.audio_url = "None")

\* a combined 480p rendition, a video-only 1080p rendition and an audio-only
\* rendition are present, each with a URL, and the target is 720 or higher
CombinedAndSeparatePresent ==
    /\ urls.op = "get_download_urls"
    /\ urls.resolution \in {"720", "1080", "best"}
    /\ \E i \in 1..Len(formats) :
          has_both(formats[i]) /\ formats[i].height = 480 /\ formats[i].url # ""
    /\ \E i \in 1..Len(formats) :
          is_video_only(formats[i]) /\ formats[i].height = 1080
          /\ formats[i].url # ""
    /\ \E i \in 1..Len(formats) :
          is_audio_only(formats[i]) /\ formats[i].url # ""

\* the result is a separate pair: a video-only and an audio-only rendition
SeparatePair ==
    /\ urls.result.needs_merge
    /\ urls.result.video_format # NoFormat
    /\ urls.result.video_format.acodec = "none"
    /\ urls.result.video_format.vcodec # "none"
    /\ urls.result.audio_format # NoFormat
    /\ urls.result.audio_format.vcodec = "none"
    /\ urls.result.audio_format.acodec # "none"
    /\ urls.result.video_url # "None"
    /\ urls.result.audio_url # "None"

SeparateAreDirect ==
    /\ \E i \in 1..Len(formats) :
          /\ formats[i].vcodec # "none" /\ formats[i].acodec = "none"
          /\ formats[i].height = 1080
          /\ formats[i].protocol = "https" /\ formats[i].url # ""
          /\ formats[i].googlevideo
    /\ \E i \in 1..Len(formats) :
          /\ formats[i].acodec # "none" /\ formats[i].vcodec = "none"
          /\ formats[i].protocol = "https" /\ formats[i].url # ""
          /\ formats[i].googlevideo

DirectVideoHeights ==
    {formats[i].height : i \in {j \in 1..Len(formats) :
        /\ formats[j].vcodec # "none" /\ formats[j].acodec = "none"
        /\ formats[j].protocol = "https" /\ formats[j].url # ""
        /\ formats[j].googlevideo /\ formats[j].height # 0}}

\* C17, as stated: for a numeric target of 720 or higher, with video-only
\* direct downloads present, the chosen video has the greatest height not
\* exceeding the target, or the least height above it when none is at or
\* below; the container never makes a lower rendition win
C17_Original ==
    (urls.op = "get_download_urls" /\ urls.resolution \in {"720", "1080"}
     /\ DirectVideoHeights # {})
    => LET target == IF urls.resolution = "720" THEN 720 ELSE 1080
           below == {h \in DirectVideoHeights : h <= target}
       IN  /\ urls.result.video_format # NoFormat
           /\ urls.result.video_format.height \in DirectVideoHeights
           /\ \A h \in below : h <= urls.result.video_format.height
           /\ below = {} =>
                 \A h \in DirectVideoHeights : urls.result.video_format.height <= h

\* the heights of the combined renditions that are direct downloads
DirectCombinedHeights ==
    {formats[i].height : i \in {j \in 1..Len(formats) :
        /\ formats[j].vcodec # "none" /\ formats[j].acodec # "none"
        /\ formats[j].protocol = "https" /\ formats[j].url # ""
        /\ formats[j].googlevideo /\ formats[j].height # 0}}

\* C18, as stated: for a numeric target below 720, with a combined direct
\* download at or below the target present, the result is a combined
\* rendition with needs_merge = false, of the height closest to the target
\* among those at or below it
C18_Original ==
    (urls.op = "get_download_urls" /\ urls.resolution = "480"
     /\ \E h \in DirectCombinedHeights : h <= 480)
    => /\ ~urls.result.needs_merge
       /\ urls.result.video_format # NoFormat
       /\ urls.result.video_format.acodec # "none"
       /\ urls.result.video_format.height <= 480
       /\ \A h \in DirectCombinedHeights :
             h <= 480 => h <= urls.result.video_format.height

\* C19, as stated: for the audio target, with audio-only direct downloads
\* present, the result has no video and its audio is the audio-only
\* rendition of the highest bitrate
C19_Original ==
    (urls.op = "get_download_urls" /\ urls.resolution = "audio"
     /\ \E i \in 1..Len(formats) :
           formats[i].vcodec = "none" /\ formats[i].acodec # "none"
           /\ formats[i].protocol = "https" /\ formats[i].url # "")
    => /\ urls.result.video_url = "None"
       /\ urls.result.audio_format # NoFormat
       /\ \A i \in 1..Len(formats) :
             (formats[i].vcodec = "none" /\ formats[i].acodec # "none"
              /\ formats[i].url # "")
             => formats[i].tbr <= urls.result.audio_format.tbr

Vocabulary ==
    { <<"c","o","n","f","i","r","m"," ","y","o","u","'","r","e"," ","n","o","t"," ","a"," ","b","o","t">>,
      <<"u","n","u","s","u","a","l"," ","t","r","a","f","f","i","c">>,
      <<"c","a","p","t","c","h","a">>,
      <<"r","a","t","e"," ","l","i","m","i","t"," ","e","x","c","e","e","d","e","d">>,
      <<"4","0","3">>,
      <<"f","a","i","l","e","d"," ","t","o"," ","e","x","t","r","a","c","t"," ","a","n","y"," ","p","l","a","y","e","r"," ","r","e","s","p","o","n","s","e">> }

\* C21, as stated: a message that contains a phrase of the vocabulary in
\* any letter case is classified as bot detection, and the classifiers of
\* the downloader and of the URL extractor give the same answer
C21_Original ==
    classified.op = "is_bot_detection_error"
    => /\ (\E phrase \in Vocabulary : Contains(Lower(classified.error_msg), phrase))
          => (classified.downloader /\ classified.url_extractor)
       /\ classified.downloader = classified.url_extractor

\* C25, as stated: when the cookies of the region were cached as the request
\* began and a refresh of the request has failed, the cache still returns
\* cookies for the region right after the failed refresh
C25_Original ==
    \A i \in 1..Len(ep_refreshes) :
        (ep_cached_first # "None" /\ ep_refreshes[i].result # "bundle"
         /\ ~ep_refreshes[i].saved)
        => ep_refreshes[i].cached_after # "None"

\* C28, as stated: the loop makes at most 3 runs, and a failed run is
\* followed by another run only when its error was taken for bot detection
C28_Original ==
    /\ Len(ep_runs) <= 3
    /\ \A k \in 1..(Len(ep_runs) - 1) :
          ep_runs[k].result # "ok" /\ ep_runs[k].is_bot_error

\* the page was reached: it was on YouTube or a navigation succeeded
PageReached ==
    token_call.on_youtube \/ \E i \in 1..3 : token_call.gotos[i] = "ok"

\* C24, as stated: on a page that was reached, the call reports success
\* exactly when a PO token or visitor data was extracted, and the result
\* carries the PO token extract_po_token returns and the visitor data found
C24_Original ==
    (token_call.op = "extract_tokens_with_timeout" /\ PageReached)
    => LET visitor == IF token_call.extract_visitor_data \in {"TimeoutError", "Exception"}
                      THEN "None" ELSE token_call.extract_visitor_data
       IN  /\ token_call.result.success
                = (token_call.extract_po_token # "None" \/ visitor # "None")
           /\ token_call.result.po_token = token_call.extract_po_token
           /\ token_call.result.visitor_data = visitor

\* C29, as stated: extract tries strategy 1 and then strategy 4, the
\* strategy-4 attempt is configured for the tv_embedded client, and its
\* configuration differs from that of the first attempt
C29_Original ==
    \A k \in 1..Len(attempts) :
        attempts[k].phase = "extract"
        => /\ attempts[k].strategy = ExtractStrategies[attempts[k].idx]
           /\ attempts[k].strategy = 4
                 => /\ attempts[k].config.player_client = <<"tv_embedded">>
                    /\ k > 1
                    /\ attempts[k - 1].strategy = 1
                    /\ attempts[k - 1].config # attempts[k].config

\* the statuses a status may be followed by, along PENDING, DOWNLOADING,
\* EXTRACTING_AUDIO, UPLOADING, optionally TRANSCRIBING, COMPLETED, or FAILED
StatusSuccessors(status) ==
    CASE status = "pending" -> {"downloading", "failed"}
      [] status = "downloading" -> {"extracting_audio", "failed"}
      [] status = "extracting_audio" -> {"uploading", "failed"}
      [] status = "uploading" -> {"transcribing", "completed", "failed"}
      [] status = "transcribing" -> {"completed", "failed"}
      [] status = "completed" -> {}
      [] status = "failed" -> {}

\* C30: the statuses a task has had begin with PENDING and each one follows
\* the one before along the forward order or is FAILED after a non-terminal
\* one; nothing follows COMPLETED or FAILED
C30_StatusForward ==
    \A t \in TaskIds :
        tasks[t] # NoTask
        => /\ tasks[t].trace[1] = "pending"
           /\ tasks[t].trace[Len(tasks[t].trace)] = tasks[t].status
           /\ \A k \in 1..(Len(tasks[t].trace) - 1) :
                 tasks[t].trace[k + 1] \in StatusSuccessors(tasks[t].trace[k])

C30_Witness ==
    /\ tasks[1] # NoTask
    /\ tasks[1].trace = <<"pending", "downloading", "extracting_audio",
                          "uploading", "transcribing", "completed">>
    /\ tasks[2] # NoTask
    /\ tasks[2].trace = <<"pending", "downloading", "extracting_audio",
                          "uploading", "transcribing", "failed">>

\* C22, as stated: for every bundle a refresh has returned, the cookie file
\* at the bundle's cookie_file_path holds the cookies of the browser session
\* the bundle's tokens are from
C22_Original ==
    \A r \in returned :
        (r.bundle # NoBundle /\ ~r.bundle.from_cache)
        => jar[r.bundle.cookie_file_path] = r.bundle.cookies

\* C26, as stated: a bundle served from the region's cached cookies carries
\* the PO token, the visitor data and the extraction timestamp of the bundle
\* the last successful refresh of the region had produced
C26_Original ==
    \A r \in returned :
        (r.bundle # NoBundle /\ r.bundle.from_cache /\ r.stored # NoBundle)
        => /\ r.bundle.po_token = r.stored.po_token
           /\ r.bundle.visitor_data = r.stored.visitor_data
           /\ r.bundle.extraction_timestamp = r.stored.extraction_timestamp

\* C27, as stated: while a refresh is inside its browser session, none of
\* the proxy variables is set in os.environ
C27_Original ==
    (\E c \in Callers : refresh[c].at \in {"session", "closing"})
    => environ \cap proxy_vars = {}

\* the place of an attempt in the order of one call: the loop before the
\* retry loop, then the position in the proxy list, then the strategy
Before(a, b) ==
    \/ a.phase = "loop" /\ b.phase = "retry"
    \/ a.phase = b.phase /\ a.idx < b.idx
    \/ a.phase = b.phase /\ a.idx = b.idx /\ a.strategy < b.strategy

\* C23: within one download call at most one attempt is in flight, an
\* attempt is started only when every attempt started before it has settled
\* or the call was abandoned, and the attempts are started in the strict
\* proxy-then-strategy order, whatever other calls do to the rotator
C23_OneAttemptInFlight ==
    /\ in_flight <= 1
    /\ pc \in {"loop", "retry"} =>
          /\ in_flight = IF awaiting THEN 1 ELSE 0
          /\ Len(starts) = Len(attempts) + in_flight
    /\ \A i \in 1..Len(starts) : \A j \in 1..Len(starts) :
          i < j => Before(starts[i], starts[j])
    /\ \A i \in 1..Len(attempts) :
          /\ starts[i].idx = attempts[i].idx
          /\ starts[i].strategy = attempts[i].strategy
          /\ starts[i].phase = attempts[i].phase

\* an attempt on the second proxy is in flight after the attempts on the
\* first one have settled, and another call has marked a proxy meanwhile
C23_Witness ==
    /\ awaiting
    /\ in_flight = 1
    /\ interfered
    /\ Len(starts) >= 3
    /\ starts[Len(starts)].idx = 2
    /\ starts[1].idx = 1

====
